---- MODULE Spec2Model ----
(***************************************************************************)
(* CareFlow analytics engine: journey reconstruction                       *)
(* (patientFlowService.getPatientJourneys), descriptive statistics,        *)
(* bottleneck classification and delay propagation                         *)
(* (bottleneckDetectionService.ts), what-if simulation                     *)
(* (simulationService) and readmission scoring (dataService.ts).           *)
(*                                                                         *)
(* Numbers.  Timestamps are whole minutes since an epoch (the code divides *)
(* millisecond differences by 60000); a missing timestamp is NoTime.       *)
(* JavaScript doubles that are quotients are kept as exact fractions       *)
(* <<num, den>> with den > 0; a square root is kept by its square.  The    *)
(* thresholds of the code are compared exactly on these, that is, doubles  *)
(* are read as the real numbers they approximate.  A score that is a sum   *)
(* of square roots is evaluated to 1/10000 before it is rounded to the one *)
(* decimal the code reports, so a reported tenth can differ by one from    *)
(* the double when the score lies within 0.003 of a rounding boundary.     *)
(*                                                                         *)
(* The what-if simulation (simulateIntervention, compareInterventions)     *)
(* divides by values that can be 0, so its numbers carry NaN, Infinity and *)
(* -Infinity next to the exact fractions, with the IEEE 754 rules for      *)
(* them.  Math.floor and Math.round are taken on the exact value: where a  *)
(* double falls a rounding error short of an integer or of a tie, the      *)
(* reported digit can differ by one.                                       *)
(*                                                                         *)
(* Readmission scoring (dataService.predictReadmissionRisk).  Admission    *)
(* and discharge dates are whole days numbered from a Sunday (the columns  *)
(* are of type date); a missing date is NoDate.                            *)
(***************************************************************************)
EXTENDS Integers, Sequences, FiniteSets, TLC

\* ---------------------------------------------------------------- bounds
MaxLogs == 3
MaxPatients == 4
MaxLen == 4

\* ------------------------------------------------------------ null values
NoTime == -1
NoId == ""
NoFilter == "*"

VARIABLES
  flowLogs,      \* rows of department_flow_logs as the query returns them
  op,            \* the operation that produced the current results
  filters,       \* filters.department of that operation
  journeys,      \* result of getPatientJourneys
  propagations,  \* result of getDelayPropagationMap
  deptMetrics,   \* detectBottlenecks: the loop's per-department locals
  bottlenecks,   \* result of detectBottlenecks
  values,        \* argument of calculateStatistics
  stats,         \* result of calculateStatistics
  departments,   \* rows of the departments table
  simulation,    \* outcome of simulateIntervention
  comparison,    \* outcome of compareInterventions
  records,       \* patient records handed to the scoring and the predictions
  risk,          \* outcome of predictReadmissionRisk
  predictions,   \* outcome of predictBottlenecks
  forecasts,     \* outcome of forecastAdmissions
  deptDelays,    \* result of getDepartmentDelays
  csvRows,       \* parsed CSV rows handed to cleanDepartmentFlowLogs
  cleanResult,   \* outcome of cleanDepartmentFlowLogs
  files,         \* CSVUploader: the datasets a file is selected for
  uploadStatuses,\* CSVUploader: status per dataset
  isUploading,   \* CSVUploader: the uploading flag
  uploader       \* processAndUpload: its position and what it captured

vars == <<flowLogs, op, filters, journeys, propagations, deptMetrics,
          bottlenecks, values, stats, departments, simulation, comparison,
          records, risk, predictions, forecasts, deptDelays, csvRows, cleanResult,
          files, uploadStatuses, isUploading, uploader>>

\* the variables of the simulation and of the readmission scoring
simVars == <<departments, simulation, comparison>>

riskVars == <<records, risk>>

\* the variables of the predictions, the delay table and the CSV ingestion
predVars == <<predictions, forecasts, deptDelays>>

ingestVars == <<csvRows, cleanResult, files, uploadStatuses, isUploading, uploader>>

\* nothing computed yet
NoOutcome == [status |-> "none"]

\* processAndUpload is not running
Idle == [pc |-> "idle"]

\* ------------------------------------------------------------ arithmetic
Abs(x) == IF x < 0 THEN -x ELSE x

Min(a, b) == IF a < b THEN a ELSE b

Max(a, b) == IF a > b THEN a ELSE b

RECURSIVE GCD(_, _)
GCD(a, b) == IF b = 0 THEN a ELSE GCD(b, a % b)

\* the fraction n/d in lowest terms, d > 0
Rat(n, d) ==
  LET g == GCD(Abs(n), Abs(d))
      s == IF d < 0 THEN -1 ELSE 1
  IN  IF n = 0 THEN <<0, 1>> ELSE <<s * (n \div g), s * (d \div g)>>

Zero == <<0, 1>>

RatOf(k) == <<k, 1>>

RatAdd(a, b) == Rat(a[1] * b[2] + b[1] * a[2], a[2] * b[2])

RatSub(a, b) == Rat(a[1] * b[2] - b[1] * a[2], a[2] * b[2])

RatMul(a, b) ==
  LET x == Rat(a[1], b[2])
      y == Rat(b[1], a[2])
  IN  Rat(x[1] * y[1], x[2] * y[2])

RatDiv(a, b) == IF b[1] < 0 THEN RatMul(a, <<-b[2], -b[1]>>) ELSE RatMul(a, <<b[2], b[1]>>)

RatAbs(a) == <<Abs(a[1]), a[2]>>

\* a/c <= d/b for a, d >= 0 and c, b > 0, by continued fractions (no products)
RECURSIVE FracLeq(_, _, _, _)
FracLeq(a, c, d, b) ==
  LET qa == a \div c
      qd == d \div b
      ra == a % c
      rd == d % b
  IN  IF qa < qd THEN TRUE
      ELSE IF qa > qd THEN FALSE
      ELSE IF ra = 0 THEN TRUE
      ELSE IF rd = 0 THEN FALSE
      ELSE FracLeq(b, rd, c, ra)

\* a <= b on fractions of any sign
RatLeq(a, b) ==
  IF a[1] <= 0 /\ b[1] >= 0 THEN TRUE
  ELSE IF a[1] > 0 /\ b[1] <= 0 THEN FALSE
  ELSE IF a[1] > 0 THEN FracLeq(a[1], a[2], b[1], b[2])
  ELSE FracLeq(-b[1], b[2], -a[1], a[2])

RatLt(a, b) == ~RatLeq(b, a)

RatMin(a, b) == IF RatLt(a, b) THEN a ELSE b

\* Math.round(n/d) for n >= 0, d > 0
RoundDiv(n, d) == (2 * n + d) \div (2 * d)


\* largest k in lo..hi with k*k*r[2] <= scaleSq*r[1]: floor(sqrt(scaleSq*r))
RECURSIVE FloorSqrt(_, _, _, _)
FloorSqrt(scaleSq, r, lo, hi) ==
  IF lo >= hi THEN lo
  ELSE LET mid == (lo + hi + 1) \div 2
       IN  IF FracLeq(mid * mid, scaleSq, r[1], r[2])
           THEN FloorSqrt(scaleSq, r, mid, hi)
           ELSE FloorSqrt(scaleSq, r, lo, mid - 1)

\* floor(10000 * sqrt(r)) for a fraction r >= 0
SqrtTenThousandths(r) == FloorSqrt(100000000, r, 0, 46340)

\* --------------------------------------------------- calculateStatistics
\* [...values].sort((a, b) => a - b): insertion keeps equal elements in order
RECURSIVE InsertValue(_, _)
InsertValue(sorted, v) ==
  IF sorted = <<>> THEN <<v>>
  ELSE IF Head(sorted) - v > 0 THEN <<v>> \o sorted
  ELSE <<Head(sorted)>> \o InsertValue(Tail(sorted), v)

RECURSIVE SortValues(_)
SortValues(vs) ==
  IF vs = <<>> THEN <<>>
  ELSE InsertValue(SortValues(SubSeq(vs, 1, Len(vs) - 1)), vs[Len(vs)])

\* values.reduce((a, b) => a + b, 0)
RECURSIVE SumSeq(_)
SumSeq(vs) == IF vs = <<>> THEN 0 ELSE Head(vs) + SumSeq(Tail(vs))

\* values.reduce((sum, val) => sum + Math.pow(val - mean, 2), 0), times n^2
RECURSIVE SumSqDev(_, _, _)
SumSqDev(vs, total, n) ==
  IF vs = <<>> THEN 0
  ELSE (n * Head(vs) - total) * (n * Head(vs) - total) + SumSqDev(Tail(vs), total, n)

\* the divisor of the variance: values.length
VarianceDivisorSample(n) == n - 1

VarianceDivisor(n) == n

\* mean and variance are fractions; stdDev is the square root of variance
CalculateStatistics(vs) ==
  IF Len(vs) = 0
  THEN [mean |-> Zero, median |-> 0, q1 |-> 0, q3 |-> 0, iqr |-> 0, variance |-> Zero]
  ELSE LET sorted == SortValues(vs)
           n == Len(vs)
           total == SumSeq(vs)
           q1 == sorted[(n \div 4) + 1]
           q3 == sorted[((3 * n) \div 4) + 1]
       IN  [mean |-> Rat(total, n),
            median |-> sorted[(n \div 2) + 1],
            q1 |-> q1,
            q3 |-> q3,
            iqr |-> q3 - q1,
            variance |-> Rat(SumSqDev(vs, total, n), n * n * VarianceDivisor(n))]

NoStats == [mean |-> Zero, median |-> 0, q1 |-> 0, q3 |-> 0, iqr |-> 0, variance |-> Zero]

\* ------------------------------------------------------ getPatientJourneys
\* (log.departments as any)?.name || 'Unknown'
DeptName(log) == IF log.dept = NoId THEN "Unknown" ELSE log.dept

\* the guards of the loop body: missing fields, the department filter, duration < 0
KeepsLogAnyDuration(log, flt) ==
  /\ ~(log.patient = NoId \/ log.entry = NoTime \/ log.exit = NoTime)
  /\ ~(flt # NoFilter /\ DeptName(log) # flt)

KeepsLog(log, flt) ==
  /\ ~(log.patient = NoId \/ log.entry = NoTime \/ log.exit = NoTime)
  /\ ~(flt # NoFilter /\ DeptName(log) # flt)
  /\ ~(log.exit - log.entry < 0)

StageOf(log) ==
  [department |-> DeptName(log), entryTime |-> log.entry, exitTime |-> log.exit,
   duration |-> log.exit - log.entry]

\* journeyMap.get(patientId).stages.push(stage), creating the journey on first use
RECURSIVE PushStage(_, _, _)
PushStage(jm, pid, stage) ==
  IF jm = <<>> THEN <<[patientId |-> pid, totalDuration |-> 0, stages |-> <<stage>>]>>
  ELSE IF Head(jm).patientId = pid
       THEN <<[Head(jm) EXCEPT !.stages = Append(@, stage)]>> \o Tail(jm)
       ELSE <<Head(jm)>> \o PushStage(Tail(jm), pid, stage)

RECURSIVE BuildJourneyMap(_, _, _)
BuildJourneyMap(logs, flt, jm) ==
  IF logs = <<>> THEN jm
  ELSE LET log == Head(logs)
       IN  IF KeepsLog(log, flt)
           THEN BuildJourneyMap(Tail(logs), flt, PushStage(jm, log.patient, StageOf(log)))
           ELSE BuildJourneyMap(Tail(logs), flt, jm)

\* stages.sort((a, b) => a.entryTime - b.entryTime): Array.prototype.sort is stable
RECURSIVE InsertStageUnstable(_, _)
InsertStageUnstable(sorted, s) ==
  IF sorted = <<>> THEN <<s>>
  ELSE IF Head(sorted).entryTime - s.entryTime >= 0 THEN <<s>> \o sorted
  ELSE <<Head(sorted)>> \o InsertStageUnstable(Tail(sorted), s)

RECURSIVE InsertStage(_, _)
InsertStage(sorted, s) ==
  IF sorted = <<>> THEN <<s>>
  ELSE IF Head(sorted).entryTime - s.entryTime > 0 THEN <<s>> \o sorted
  ELSE <<Head(sorted)>> \o InsertStage(Tail(sorted), s)

RECURSIVE SortStages(_)
SortStages(ss) ==
  IF ss = <<>> THEN <<>>
  ELSE InsertStage(SortStages(SubSeq(ss, 1, Len(ss) - 1)), ss[Len(ss)])

\* stages.reduce((sum, stage) => sum + stage.duration, 0)
RECURSIVE SumDurationsFromSecond(_)
SumDurationsFromSecond(ss) ==
  IF Len(ss) <= 1 THEN 0 ELSE ss[2].duration + SumDurationsFromSecond(Tail(ss))

RECURSIVE SumDurations(_)
SumDurations(ss) == IF ss = <<>> THEN 0 ELSE Head(ss).duration + SumDurations(Tail(ss))

FinishJourney(j) ==
  LET sorted == SortStages(j.stages)
  IN  [patientId |-> j.patientId, totalDuration |-> SumDurations(sorted), stages |-> sorted]

GetPatientJourneys(logs, flt) ==
  IF Len(logs) = 0 THEN <<>>
  ELSE LET jm == BuildJourneyMap(logs, flt, <<>>)
       IN  [i \in 1..Len(jm) |-> FinishJourney(jm[i])]

\* --------------------------------------------------- getDelayPropagationMap
\* if (waitTime > 5): only significant waits are counted
IsSignificantWaitInclusive(w) == w >= 5

IsSignificantWait(w) == w > 5

\* propagationMap.get(key): totalDelay += waitTime; count++ (entry created on first use)
RECURSIVE AddPropagation(_, _, _, _)
AddPropagation(pm, src, tgt, w) ==
  IF pm = <<>> THEN <<[source |-> src, target |-> tgt, totalDelay |-> w, count |-> 1]>>
  ELSE IF Head(pm).source = src /\ Head(pm).target = tgt
       THEN <<[Head(pm) EXCEPT !.totalDelay = @ + w, !.count = @ + 1]>> \o Tail(pm)
       ELSE <<Head(pm)>> \o AddPropagation(Tail(pm), src, tgt, w)

\* (next.entryTime - current.exitTime) / (1000 * 60)
WaitTime(current, next) == next.entryTime - current.exitTime

\* the inner loop: for (let i = 0; i < journey.stages.length - 1; i++)
RECURSIVE PropagationOfStages(_, _, _)
PropagationOfStages(stages, i, pm) ==
  IF i > Len(stages) - 1 THEN pm
  ELSE LET w == WaitTime(stages[i], stages[i + 1])
       IN  IF IsSignificantWait(w)
           THEN PropagationOfStages(stages, i + 1,
                  AddPropagation(pm, stages[i].department, stages[i + 1].department, w))
           ELSE PropagationOfStages(stages, i + 1, pm)

RECURSIVE PropagationOfJourneys(_, _)
PropagationOfJourneys(js, pm) ==
  IF js = <<>> THEN pm
  ELSE PropagationOfJourneys(Tail(js), PropagationOfStages(Head(js).stages, 1, pm))

\* Math.round(Math.min((avgDelay / 60) * 100, 100) * 10), the strength in tenths
PropagationStrengthUnclamped(totalDelay, count) ==
  RoundDiv(10 * 100 * totalDelay, 60 * count)

PropagationStrength(totalDelay, count) ==
  RoundDiv(10 * Min(100 * totalDelay, 100 * 60 * count), 60 * count)

PropagationRecord(e) ==
  [sourceDepartment |-> e.source,
   targetDepartment |-> e.target,
   avgDelayTransferred |-> RoundDiv(e.totalDelay, e.count),
   patientsAffected |-> e.count,
   propagationStrength |-> PropagationStrength(e.totalDelay, e.count)]

\* propagations.sort((a, b) => b.propagationStrength - a.propagationStrength)
RECURSIVE InsertPropagation(_, _)
InsertPropagation(sorted, p) ==
  IF sorted = <<>> THEN <<p>>
  ELSE IF p.propagationStrength - Head(sorted).propagationStrength > 0 THEN <<p>> \o sorted
  ELSE <<Head(sorted)>> \o InsertPropagation(Tail(sorted), p)

RECURSIVE SortPropagations(_)
SortPropagations(ps) ==
  IF ps = <<>> THEN <<>>
  ELSE InsertPropagation(SortPropagations(SubSeq(ps, 1, Len(ps) - 1)), ps[Len(ps)])

GetDelayPropagationMap(logs, flt) ==
  LET pm == PropagationOfJourneys(GetPatientJourneys(logs, flt), <<>>)
  IN  SortPropagations([i \in 1..Len(pm) |-> PropagationRecord(pm[i])])

\* ---------------------------------------------------- analyzeDepartmentFlows
\* downstreamDelays.set(next, (downstreamDelays.get(next) || 0) + waitTime)
RECURSIVE AddDownstreamDelay(_, _, _)
AddDownstreamDelay(dd, dept, w) ==
  IF dd = <<>> THEN <<[dept |-> dept, delay |-> w]>>
  ELSE IF Head(dd).dept = dept
       THEN <<[Head(dd) EXCEPT !.delay = @ + w]>> \o Tail(dd)
       ELSE <<Head(dd)>> \o AddDownstreamDelay(Tail(dd), dept, w)

\* one stage of the loop body: times.push, patientVolume++, and the wait > 0
\* toward nextDept (hasNext says whether the stage has a successor)
RECURSIVE RecordStage(_, _, _, _, _, _)
RecordStage(da, dept, duration, hasNext, nextDept, w) ==
  IF da = <<>>
  THEN <<[name |-> dept, times |-> <<duration>>, patientVolume |-> 1,
          downstreamDelays |->
            IF hasNext /\ w > 0 THEN <<[dept |-> nextDept, delay |-> w]>> ELSE <<>>]>>
  ELSE IF Head(da).name = dept
       THEN <<[Head(da) EXCEPT
                 !.times = Append(@, duration),
                 !.patientVolume = @ + 1,
                 !.downstreamDelays =
                   IF hasNext /\ w > 0 THEN AddDownstreamDelay(@, nextDept, w) ELSE @]>>
            \o Tail(da)
       ELSE <<Head(da)>> \o RecordStage(Tail(da), dept, duration, hasNext, nextDept, w)

RECURSIVE AnalyzeStages(_, _, _)
AnalyzeStages(stages, i, da) ==
  IF i > Len(stages) THEN da
  ELSE LET hasNext == i < Len(stages)
           nextDept == IF hasNext THEN stages[i + 1].department ELSE NoId
           w == IF hasNext THEN WaitTime(stages[i], stages[i + 1]) ELSE 0
       IN  AnalyzeStages(stages, i + 1,
             RecordStage(da, stages[i].department, stages[i].duration, hasNext, nextDept, w))

RECURSIVE AnalyzeJourneys(_, _)
AnalyzeJourneys(js, da) ==
  IF js = <<>> THEN da
  ELSE AnalyzeJourneys(Tail(js), AnalyzeStages(Head(js).stages, 1, da))

\* deptAnalysis in Map insertion order; expectedTime / actualTime are the
\* median / mean of CalculateStatistics(times)
AnalyzeDepartmentFlows(logs, flt) == AnalyzeJourneys(GetPatientJourneys(logs, flt), <<>>)

\* --------------------------------------------------------- detectBottlenecks
\* calculateZScore: [sign, sq] stands for sign * sqrt(sq)
CalculateZScoreReversed(value, mean, variance) ==
  IF variance = Zero THEN [sign |-> 0, sq |-> Zero]
  ELSE LET diff == RatSub(mean, value)
       IN  [sign |-> IF diff[1] > 0 THEN 1 ELSE IF diff[1] < 0 THEN -1 ELSE 0,
            sq |-> RatDiv(RatMul(diff, diff), variance)]

CalculateZScore(value, mean, variance) ==
  IF variance = Zero THEN [sign |-> 0, sq |-> Zero]
  ELSE LET diff == RatSub(value, mean)
       IN  [sign |-> IF diff[1] > 0 THEN 1 ELSE IF diff[1] < 0 THEN -1 ELSE 0,
            sq |-> RatDiv(RatMul(diff, diff), variance)]

\* calculateIQRPosition: 0 when iqr === 0, else the distance outside [q1, q3]
\* in units of the iqr
CalculateIQRPosition(value, q1, q3, iqr) ==
  IF iqr = 0 THEN Zero
  ELSE IF RatLt(value, RatOf(q1)) THEN RatDiv(RatSub(RatOf(q1), value), RatOf(iqr))
  ELSE IF RatLt(RatOf(q3), value) THEN RatDiv(RatSub(value, RatOf(q3)), RatOf(iqr))
  ELSE Zero

\* Math.round(scale * sign * sqrt(sq)): halves round toward +infinity
RoundRoot(scale, sign, sq) ==
  LET y == FloorSqrt(4 * scale * scale, sq, 0, 30000)
      exact == FracLeq(sq[1], sq[2], y * y, 4 * scale * scale)
  IN  IF sign >= 0 THEN sign * ((y + 1) \div 2)
      ELSE IF exact THEN -(y \div 2)
      ELSE -((y + 1) \div 2)

\* globalStats.stdDev > 0 ? deptStats.stdDev / globalStats.stdDev : 1, squared
VarianceRatioSq(deptStats, globalStats) ==
  IF globalStats.variance[1] > 0 THEN RatDiv(deptStats.variance, globalStats.variance)
  ELSE <<1, 1>>

\* expectedTime > 0 ? ((actualTime - expectedTime) / expectedTime) * 100 : 0
TimeDeviation(actualTime, expectedTime) ==
  IF expectedTime > 0
  THEN RatMul(RatDiv(RatSub(actualTime, RatOf(expectedTime)), RatOf(expectedTime)), RatOf(100))
  ELSE Zero

RECURSIVE SumDelays(_)
SumDelays(dd) == IF dd = <<>> THEN 0 ELSE Head(dd).delay + SumDelays(Tail(dd))

\* downstreamDelays.size > 0 ? totalDownstreamDelay / downstreamDelays.size : 0
AvgDownstreamDelay(dd) == IF Len(dd) > 0 THEN Rat(SumDelays(dd), Len(dd)) ELSE Zero

\* Math.min((avgDownstreamDelay / actualTime) * 100, 100): 0/0 is NaN, x/0 is
\* Infinity and Math.min(Infinity, 100) is 100
DelayPropagationScore(avg, actualTime) ==
  IF actualTime = Zero
  THEN IF avg = Zero THEN [nan |-> TRUE, v |-> Zero] ELSE [nan |-> FALSE, v |-> RatOf(100)]
  ELSE [nan |-> FALSE, v |-> RatMin(RatMul(RatDiv(avg, actualTime), RatOf(100)), RatOf(100))]

\* volumeStats.mean > 0 ? (patientVolume / volumeStats.mean) * 100 : 0
VolumePercentile(patientVolume, volumeStats) ==
  IF volumeStats.mean[1] > 0
  THEN RatMul(RatDiv(RatOf(patientVolume), volumeStats.mean), RatOf(100))
  ELSE Zero

\* stdDev > mean * 0.5 ? stdDev / mean : 0, squared (mean >= 0)
CongestionSq(deptStats) ==
  IF RatLt(RatMul(RatMul(deptStats.mean, deptStats.mean), <<1, 4>>), deptStats.variance)
  THEN IF deptStats.mean = Zero THEN Zero
       ELSE RatDiv(deptStats.variance, RatMul(deptStats.mean, deptStats.mean))
  ELSE Zero

LoadLevel(volumePercentile) ==
  IF RatLt(volumePercentile, RatOf(60)) THEN "low"
  ELSE IF RatLt(volumePercentile, RatOf(100)) THEN "moderate"
  ELSE "high"

\* the per-department locals of the loop, exact
DeptMetrics(a, globalStats, volumeStats) ==
  LET deptStats == CalculateStatistics(a.times)
      z == CalculateZScore(deptStats.mean, globalStats.mean, globalStats.variance)
      vp == VolumePercentile(a.patientVolume, volumeStats)
      dps == DelayPropagationScore(AvgDownstreamDelay(a.downstreamDelays), deptStats.mean)
  IN  [name |-> a.name,
       samples |-> Len(a.times),
       patientVolume |-> a.patientVolume,
       actualTime |-> deptStats.mean,
       expectedTime |-> deptStats.median,
       avgDownstreamDelay |-> AvgDownstreamDelay(a.downstreamDelays),
       globalIqr |-> globalStats.iqr,
       iqrPosition |->
         CalculateIQRPosition(deptStats.mean, globalStats.q1, globalStats.q3, globalStats.iqr),
       globalMean |-> globalStats.mean,
       globalVariance |-> globalStats.variance,
       zSign |-> z.sign,
       zSq |-> z.sq,
       varianceRatioSq |-> VarianceRatioSq(deptStats, globalStats),
       timeDeviation |-> TimeDeviation(deptStats.mean, deptStats.median),
       dpsNaN |-> dps.nan,
       delayPropagationScore |-> dps.v,
       volumePercentile |-> vp,
       congestionSq |-> CongestionSq(deptStats),
       loadLevel |-> LoadLevel(vp)]

\* if (analysis.times.length < 3) continue
MinSamples == 3

HasEnoughSamplesTwo(m) == ~(m.samples < 2)

HasEnoughSamples(m) == ~(m.samples < MinSamples)

\* the if / else if chain deciding bottleneckType; "none" is the continue
BottleneckTypeEmergingFirst(m) ==
  IF RatLt(<<169, 100>>, m.varianceRatioSq) /\ RatLt(<<16, 25>>, m.congestionSq)
  THEN "emerging"
  ELSE IF m.loadLevel = "moderate" /\ ~m.dpsNaN /\ RatLt(RatOf(30), m.delayPropagationScore)
  THEN "invisible"
  ELSE IF m.loadLevel = "high" /\ RatLt(RatOf(50), m.timeDeviation)
  THEN "obvious"
  ELSE "none"

BottleneckType(m) ==
  IF m.loadLevel = "moderate" /\ ~m.dpsNaN /\ RatLt(RatOf(30), m.delayPropagationScore)
  THEN "invisible"
  ELSE IF m.loadLevel = "high" /\ RatLt(RatOf(50), m.timeDeviation)
  THEN "obvious"
  ELSE IF RatLt(<<169, 100>>, m.varianceRatioSq) /\ RatLt(<<16, 25>>, m.congestionSq)
  THEN "emerging"
  ELSE "none"

\* (volumePercentile * 0.4) + (Math.abs(timeDeviation) * 0.6)
PatientImpactScore(m) ==
  RatAdd(RatMul(m.volumePercentile, <<2, 5>>), RatMul(RatAbs(m.timeDeviation), <<3, 5>>))

\* congestion * 30 + varianceRatio * 40 + |zScore| * 30 before Math.min(.., 100),
\* in units of 1/10000
ResourceStrainSum(m) ==
  30 * SqrtTenThousandths(m.congestionSq) + 40 * SqrtTenThousandths(m.varianceRatioSq)
    + 30 * SqrtTenThousandths(m.zSq)

\* Math.round(overallImpactScore * 10) with overallImpactScore =
\* patientImpact * 0.35 + delayPropagation * 0.35 + resourceStrain * 0.3:
\* the fraction 3.5 * (patientImpact + delayPropagation) is exact, the
\* resource strain is exact when clamped to 100 and within 1/10000 otherwise
OverallImpactScore(m) ==
  LET exact == RatMul(<<7, 2>>, RatAdd(PatientImpactScore(m), m.delayPropagationScore))
      whole == exact[1] \div exact[2]
      part == (10000 * (exact[1] % exact[2])) \div exact[2]
      strain == Min(ResourceStrainSum(m), 1000000)
  IN  whole + (part + 3 * strain + 5000) \div 10000

\* the pushed record; zScore in hundredths, overallImpactScore in tenths
\* (Math.round(x * 10) / 10); a NaN score is flagged
BottleneckRecord(m) ==
  [departmentName |-> m.name,
   rank |-> 0,
   bottleneckType |-> BottleneckType(m),
   zScore |-> RoundRoot(100, m.zSign, m.zSq),
   overallImpactScore |-> IF m.dpsNaN THEN 0 ELSE OverallImpactScore(m),
   scoreIsNaN |-> m.dpsNaN,
   patientsAffected |-> m.patientVolume,
   loadLevel |-> m.loadLevel]

\* the loop over deptAnalysis: skip, classify, push
RECURSIVE CollectBottlenecks(_)
CollectBottlenecks(ms) ==
  IF ms = <<>> THEN <<>>
  ELSE IF ~HasEnoughSamples(Head(ms)) THEN CollectBottlenecks(Tail(ms))
  ELSE IF BottleneckType(Head(ms)) = "none" THEN CollectBottlenecks(Tail(ms))
  ELSE <<BottleneckRecord(Head(ms))>> \o CollectBottlenecks(Tail(ms))

\* the comparator (a, b) => b.overallImpactScore - a.overallImpactScore says
\* "b before a" when positive; a NaN difference orders nothing
ComesBeforeAscending(b, a) ==
  ~a.scoreIsNaN /\ ~b.scoreIsNaN /\ a.overallImpactScore - b.overallImpactScore > 0

ComesBefore(b, a) ==
  ~a.scoreIsNaN /\ ~b.scoreIsNaN /\ b.overallImpactScore - a.overallImpactScore > 0

\* bottlenecks.sort(...): stable
RECURSIVE InsertBottleneck(_, _)
InsertBottleneck(sorted, b) ==
  IF sorted = <<>> THEN <<b>>
  ELSE IF ComesBefore(b, Head(sorted)) THEN <<b>> \o sorted
  ELSE <<Head(sorted)>> \o InsertBottleneck(Tail(sorted), b)

RECURSIVE SortBottlenecks(_)
SortBottlenecks(bs) ==
  IF bs = <<>> THEN <<>>
  ELSE InsertBottleneck(SortBottlenecks(SubSeq(bs, 1, Len(bs) - 1)), bs[Len(bs)])

\* bottlenecks.forEach((b, idx) => b.rank = idx + 1)
AssignRanks(bs) == [i \in 1..Len(bs) |-> [bs[i] EXCEPT !.rank = i]]

RECURSIVE AllTimes(_)
AllTimes(da) == IF da = <<>> THEN <<>> ELSE Head(da).times \o AllTimes(Tail(da))

\* the metrics of every department of deptAnalysis, in Map order
MetricsOf(logs, flt) ==
  LET da == AnalyzeDepartmentFlows(logs, flt)
      globalStats == CalculateStatistics(AllTimes(da))
      volumeStats == CalculateStatistics([i \in 1..Len(da) |-> da[i].patientVolume])
  IN  [i \in 1..Len(da) |-> DeptMetrics(da[i], globalStats, volumeStats)]

DetectBottlenecks(ms) ==
  IF Len(ms) = 0 THEN <<>> ELSE AssignRanks(SortBottlenecks(CollectBottlenecks(ms)))

\* const bottlenecks: BottleneckDetection[] = [] is local to the call: the
\* list starts empty whatever an earlier call returned
BottlenecksSoFarKept(earlier) == earlier

BottlenecksSoFar(earlier) == <<>>

\* detectBottlenecks pushing onto the list it starts with
DetectBottlenecksInto(list, ms) ==
  IF Len(ms) = 0 THEN <<>> ELSE AssignRanks(SortBottlenecks(list \o CollectBottlenecks(ms)))

\* ------------------------------------------------- numbers with NaN, Infinity
\* a JavaScript number: a fraction, NaN, Infinity or -Infinity
XNum(r) == [k |-> "num", v |-> r]

NaN == [k |-> "nan", v |-> Zero]

PosInf == [k |-> "inf", v |-> Zero]

NegInf == [k |-> "ninf", v |-> Zero]

XInt(n) == XNum(RatOf(n))

IsFiniteNumber(a) == a.k = "num"

SignOf(a) ==
  IF a.k = "inf" THEN 1
  ELSE IF a.k = "ninf" THEN -1
  ELSE IF a.v[1] > 0 THEN 1
  ELSE IF a.v[1] < 0 THEN -1
  ELSE 0

Infinite(sign) == IF sign > 0 THEN PosInf ELSE NegInf

XNeg(a) ==
  IF a.k = "num" THEN XNum(<<-a.v[1], a.v[2]>>)
  ELSE IF a.k = "inf" THEN NegInf
  ELSE IF a.k = "ninf" THEN PosInf
  ELSE NaN

\* a + b: Infinity + -Infinity is NaN
XAdd(a, b) ==
  IF a.k = "nan" \/ b.k = "nan" THEN NaN
  ELSE IF a.k = "num" /\ b.k = "num" THEN XNum(RatAdd(a.v, b.v))
  ELSE IF a.k = "num" THEN b
  ELSE IF b.k = "num" THEN a
  ELSE IF a.k = b.k THEN a
  ELSE NaN

XSub(a, b) == XAdd(a, XNeg(b))

\* a * b: 0 * Infinity is NaN
XMul(a, b) ==
  IF a.k = "nan" \/ b.k = "nan" THEN NaN
  ELSE IF a.k = "num" /\ b.k = "num" THEN XNum(RatMul(a.v, b.v))
  ELSE IF SignOf(a) * SignOf(b) = 0 THEN NaN
  ELSE Infinite(SignOf(a) * SignOf(b))

\* a / b: 0 / 0 is NaN, x / 0 is Infinity with the sign of x (the zero
\* divisors of the program are all +0), x / Infinity is 0
XDiv(a, b) ==
  IF a.k = "nan" \/ b.k = "nan" THEN NaN
  ELSE IF b.k = "num"
  THEN IF b.v = Zero
       THEN IF SignOf(a) = 0 THEN NaN ELSE Infinite(SignOf(a))
       ELSE IF a.k = "num" THEN XNum(RatDiv(a.v, b.v))
       ELSE Infinite(SignOf(a) * SignOf(b))
  ELSE IF a.k = "num" THEN XNum(Zero)
  ELSE NaN

\* a < b; false when either is NaN
XLt(a, b) ==
  IF a.k = "nan" \/ b.k = "nan" THEN FALSE
  ELSE IF a.k = "num" /\ b.k = "num" THEN RatLt(a.v, b.v)
  ELSE IF a.k = "ninf" THEN b.k # "ninf"
  ELSE IF b.k = "inf" THEN a.k # "inf"
  ELSE FALSE

\* Math.max and Math.min: NaN when either argument is NaN
XMax(a, b) ==
  IF a.k = "nan" \/ b.k = "nan" THEN NaN ELSE IF XLt(a, b) THEN b ELSE a

XMin(a, b) ==
  IF a.k = "nan" \/ b.k = "nan" THEN NaN ELSE IF XLt(b, a) THEN b ELSE a

XAbs(a) ==
  IF a.k = "num" THEN XNum(RatAbs(a.v)) ELSE IF a.k = "nan" THEN NaN ELSE PosInf

\* Math.floor
XFloor(a) == IF a.k = "num" THEN XInt(a.v[1] \div a.v[2]) ELSE a

\* Math.round(a * scale) / scale: halves go toward +Infinity
XRound(a, scale) ==
  IF a.k = "num"
  THEN XNum(Rat((2 * scale * a.v[1] + a.v[2]) \div (2 * a.v[2]), scale))
  ELSE a

\* ------------------------------------------------------ simulateIntervention
\* a null bed_capacity or staff_count
NoCount == -1

\* x || fallback on a column that may be null or 0
OrDefault(x, fallback) == IF x = NoCount \/ x = 0 THEN fallback ELSE x

\* .from('departments').eq('name', departmentName).maybeSingle(): the row when
\* exactly one matches, else null
NoRow == [name |-> NoId, bed_capacity |-> NoCount, staff_count |-> NoCount]

DepartmentRow(depts, departmentName) ==
  LET hits == SelectSeq(depts, LAMBDA d : d.name = departmentName)
  IN  IF Len(hits) = 1 THEN hits[1] ELSE NoRow

\* getDepartmentDelays, as far as the baseline reads it: one DepartmentDelay
\* per department that has a stage, named by its departmentName field
RECURSIVE StagesOfJourneys(_)
StagesOfJourneys(js) ==
  IF js = <<>> THEN <<>> ELSE Head(js).stages \o StagesOfJourneys(Tail(js))

RECURSIVE DelaysOfStages(_, _)
DelaysOfStages(stages, delays) ==
  IF stages = <<>> THEN delays
  ELSE IF \E i \in DOMAIN delays : delays[i].departmentName = Head(stages).department
  THEN DelaysOfStages(Tail(stages), delays)
  ELSE DelaysOfStages(Tail(stages),
                      Append(delays, [departmentName |-> Head(stages).department]))

GetDepartmentDelays(js) ==
  IF Len(js) = 0 THEN <<>> ELSE DelaysOfStages(StagesOfJourneys(js), <<>>)

\* delays.filter(d => d.department === departmentName): a DepartmentDelay has
\* no field named department, so the property read is undefined
DepartmentDelays(delays, departmentName) ==
  SelectSeq(delays, LAMBDA d : "department" \in DOMAIN d /\ d["department"] = departmentName)

\* Math.min(100, 15 + (processingTime / 60) * 0.5 + delayCount * 0.3)
CalculateReadmissionRisk(processingTime, delayCount) ==
  XMin(XInt(100),
       XAdd(XAdd(XInt(15), XMul(XDiv(processingTime, XInt(60)), XNum(<<1, 2>>))),
            XMul(XInt(delayCount), XNum(<<3, 10>>))))

\* the length of stay of a journey in days when it carries admissionDate and
\* dischargeDate (in days), which a PatientJourney does not
JourneyLOS(j) ==
  IF "admissionDate" \in DOMAIN j /\ "dischargeDate" \in DOMAIN j
  THEN j["dischargeDate"] - j["admissionDate"]
  ELSE 0

RECURSIVE TotalLOS(_)
TotalLOS(js) == IF js = <<>> THEN 0 ELSE JourneyLOS(Head(js)) + TotalLOS(Tail(js))

\* the return statement of calculateBaselineMetrics
BaselineMetrics(averageLOS, bedUtilization, avgProcessingTime, readmissionRisk, throughput) ==
  [averageLOS |-> XRound(averageLOS, 10),
   bedUtilization |-> XMin(XInt(100), XRound(bedUtilization, 10)),
   avgProcessingTime |-> XRound(avgProcessingTime, 1),
   readmissionRisk |-> XRound(readmissionRisk, 10),
   throughput |-> throughput]

\* departmentStages.length > 0 ? sum of durations / departmentStages.length : 0
AvgProcessingTime(departmentStages) ==
  IF Len(departmentStages) > 0
  THEN XNum(Rat(SumDurations(departmentStages), Len(departmentStages)))
  ELSE XInt(0)

\* deptJourneys.length > 0 ? totalLOS / deptJourneys.length : 0
AverageLOS(deptJourneys) ==
  IF Len(deptJourneys) > 0
  THEN XNum(Rat(TotalLOS(deptJourneys), Len(deptJourneys)))
  ELSE XInt(0)

\* (currentPatients / (dept?.bed_capacity || 1)) * 100
BedUtilization(currentPatients, dept) ==
  XMul(XDiv(XInt(currentPatients), XInt(OrDefault(dept.bed_capacity, 1))), XInt(100))

\* the metrics computed from the stages of the department
BaselineOfStages(deptJourneys, departmentStages, departmentDelays, dept) ==
  BaselineMetrics(AverageLOS(deptJourneys),
                  BedUtilization(Len(departmentStages), dept),
                  AvgProcessingTime(departmentStages),
                  CalculateReadmissionRisk(AvgProcessingTime(departmentStages),
                                           Len(departmentDelays)),
                  XInt(Len(departmentStages)))

\* journeys.filter(j => j.stages.some(s => s.department === departmentName))
DeptJourneys(js, departmentName) ==
  SelectSeq(js, LAMBDA j : \E i \in DOMAIN j.stages : j.stages[i].department = departmentName)

\* deptJourneys.flatMap(j => j.stages).filter(s => s.department === departmentName)
DepartmentStages(deptJourneys, departmentName) ==
  SelectSeq(StagesOfJourneys(deptJourneys), LAMBDA s : s.department = departmentName)

BaselineOfJourneys(js, departmentName, dept) ==
  BaselineOfStages(DeptJourneys(js, departmentName),
                   DepartmentStages(DeptJourneys(js, departmentName), departmentName),
                   DepartmentDelays(GetDepartmentDelays(js), departmentName),
                   dept)

CalculateBaselineMetrics(departmentName, logs, flt, depts) ==
  BaselineOfJourneys(GetPatientJourneys(logs, flt), departmentName,
                     DepartmentRow(depts, departmentName))

\* the rounding every projection applies to what it returns
RoundedMetrics(newLOS, newBedUtilization, newProcessingTime, newReadmissionRisk, throughput) ==
  [averageLOS |-> XRound(newLOS, 10),
   bedUtilization |-> XRound(newBedUtilization, 10),
   avgProcessingTime |-> XRound(newProcessingTime, 1),
   readmissionRisk |-> XRound(newReadmissionRisk, 10),
   throughput |-> throughput]

ProjectStaffIntervention(baseline, staffIncrease, currentStaff) ==
  LET staffMultiplier == XDiv(XInt(currentStaff), XInt(currentStaff + staffIncrease))
      newProcessingTime == XMul(baseline.avgProcessingTime, staffMultiplier)
      processingReduction == XSub(baseline.avgProcessingTime, newProcessingTime)
      losReduction == XMul(XDiv(processingReduction, XInt(60)), XNum(<<4, 5>>))
      newLOS == XMax(XNum(<<1, 10>>), XSub(baseline.averageLOS, losReduction))
      bedUtilizationImprovement == XMul(losReduction, XInt(5))
      newBedUtilization ==
        XMax(XInt(0), XSub(baseline.bedUtilization, bedUtilizationImprovement))
      readmissionReduction ==
        XMul(XMul(XDiv(processingReduction, baseline.avgProcessingTime),
                  baseline.readmissionRisk), XNum(<<3, 10>>))
      newReadmissionRisk == XMax(XInt(0), XSub(baseline.readmissionRisk, readmissionReduction))
      throughputIncrease ==
        XFloor(XMul(baseline.throughput,
                    XAdd(XInt(1), XMul(XDiv(XInt(staffIncrease), XInt(currentStaff)),
                                       XNum(<<1, 2>>)))))
  IN  RoundedMetrics(newLOS, newBedUtilization, newProcessingTime, newReadmissionRisk,
                     throughputIncrease)

ProjectBedsIntervention(baseline, bedIncrease, currentBeds) ==
  LET newBedCapacity == currentBeds + bedIncrease
      capacityIncrease == XDiv(XInt(bedIncrease), XInt(currentBeds))
      newBedUtilization ==
        XMul(baseline.bedUtilization, XDiv(XInt(currentBeds), XInt(newBedCapacity)))
      waitTimeReduction == XMin(XMul(capacityIncrease, XNum(<<3, 10>>)), XNum(<<1, 2>>))
      losReduction == XMul(XMul(baseline.averageLOS, waitTimeReduction), XNum(<<2, 5>>))
      newLOS == XMax(XNum(<<1, 10>>), XSub(baseline.averageLOS, losReduction))
      newProcessingTime ==
        XMul(baseline.avgProcessingTime,
             XSub(XInt(1), XMul(waitTimeReduction, XNum(<<1, 5>>))))
      readmissionReduction ==
        XMul(XMul(waitTimeReduction, baseline.readmissionRisk), XNum(<<1, 5>>))
      newReadmissionRisk == XMax(XInt(0), XSub(baseline.readmissionRisk, readmissionReduction))
      throughputIncrease ==
        XFloor(XMul(baseline.throughput,
                    XAdd(XInt(1), XMul(capacityIncrease, XNum(<<3, 10>>)))))
  IN  RoundedMetrics(newLOS, newBedUtilization, newProcessingTime, newReadmissionRisk,
                     throughputIncrease)

\* the floor of the projected processing time
MinProcessingTime == 5

ProjectProcessingTimeIntervention(baseline, timeReduction) ==
  LET newProcessingTime ==
        XMax(XInt(MinProcessingTime), XSub(baseline.avgProcessingTime, XInt(timeReduction)))
      reductionRatio == XDiv(XInt(timeReduction), baseline.avgProcessingTime)
      losReduction == XMul(XMul(baseline.averageLOS, reductionRatio), XNum(<<3, 5>>))
      newLOS == XMax(XNum(<<1, 10>>), XSub(baseline.averageLOS, losReduction))
      bedUtilizationImprovement ==
        XMul(XMul(reductionRatio, baseline.bedUtilization), XNum(<<2, 5>>))
      newBedUtilization ==
        XMax(XInt(0), XSub(baseline.bedUtilization, bedUtilizationImprovement))
      readmissionReduction ==
        XMul(XMul(reductionRatio, baseline.readmissionRisk), XNum(<<2, 5>>))
      newReadmissionRisk == XMax(XInt(0), XSub(baseline.readmissionRisk, readmissionReduction))
      throughputIncrease ==
        XFloor(XMul(baseline.throughput,
                    XAdd(XInt(1), XMul(reductionRatio, XNum(<<7, 10>>)))))
  IN  RoundedMetrics(newLOS, newBedUtilization, newProcessingTime, newReadmissionRisk,
                     throughputIncrease)

\* the switch of calculateCostBenefit: price of one unit of the magnitude;
\* no case matches another type and estimatedCost stays 0
UnitPrice(type) ==
  IF type = "staff" THEN <<75000, 1>>
  ELSE IF type = "beds" THEN <<50000, 1>>
  ELSE IF type = "processing_time" THEN <<10000, 1>>
  ELSE Zero

EstimatedCost(intervention) == RatMul(RatOf(intervention.value), UnitPrice(intervention.type))

\* losReductionPercent * 0.4 + |bedUtilizationChange| * 0.3
\* + readmissionRiskReduction * 0.3
ImpactScoreSwappedWeights(improvements) ==
  XAdd(XAdd(XMul(improvements.losReductionPercent, XNum(<<3, 10>>)),
            XMul(XAbs(improvements.bedUtilizationChange), XNum(<<2, 5>>))),
       XMul(improvements.readmissionRiskReduction, XNum(<<3, 10>>)))

ImpactScore(improvements) ==
  XAdd(XAdd(XMul(improvements.losReductionPercent, XNum(<<2, 5>>)),
            XMul(XAbs(improvements.bedUtilizationChange), XNum(<<3, 10>>))),
       XMul(improvements.readmissionRiskReduction, XNum(<<3, 10>>)))

\* estimatedCost > 0 ? (impactScore * patientsImpacted * 1000) / estimatedCost : 0
Roi(impactScore, patientsImpacted, estimatedCost) ==
  IF estimatedCost[1] > 0
  THEN XDiv(XMul(XMul(impactScore, patientsImpacted), XInt(1000)), XNum(estimatedCost))
  ELSE XInt(0)

CostBenefit(estimatedCost, impactScore, patientsImpacted) ==
  [estimatedCost |-> estimatedCost,
   impactScore |-> XRound(impactScore, 10),
   roi |-> XRound(Roi(impactScore, patientsImpacted, estimatedCost), 100)]

CalculateCostBenefit(intervention, improvements) ==
  CostBenefit(EstimatedCost(intervention), ImpactScore(improvements),
              improvements.patientsImpacted)

\* the switch of simulateIntervention; the default branch keeps the baseline
Projected(intervention, baseline, currentStaff, currentBeds) ==
  IF intervention.type = "staff"
  THEN ProjectStaffIntervention(baseline, intervention.value, currentStaff)
  ELSE IF intervention.type = "beds"
  THEN ProjectBedsIntervention(baseline, intervention.value, currentBeds)
  ELSE IF intervention.type = "processing_time"
  THEN ProjectProcessingTimeIntervention(baseline, intervention.value)
  ELSE baseline

\* baseline.averageLOS > 0 ? (losReduction / baseline.averageLOS) * 100 : 0
LosReductionPercent(baseline, losReduction) ==
  IF XLt(XInt(0), baseline.averageLOS)
  THEN XMul(XDiv(losReduction, baseline.averageLOS), XInt(100))
  ELSE XInt(0)

\* the improvements object
Improvements(baseline, projected) ==
  [losReduction |-> XRound(XSub(baseline.averageLOS, projected.averageLOS), 10),
   losReductionPercent |->
     XRound(LosReductionPercent(baseline, XSub(baseline.averageLOS, projected.averageLOS)), 10),
   bedUtilizationChange |->
     XRound(XSub(baseline.bedUtilization, projected.bedUtilization), 10),
   readmissionRiskReduction |->
     XRound(XSub(baseline.readmissionRisk, projected.readmissionRisk), 10),
   patientsImpacted |-> projected.throughput]

\* the returned object; status would be "error" for a rejected promise, and
\* no branch of the code throws
SimulationResult(intervention, baseline, projected, improvements) ==
  [status |-> "ok",
   intervention |-> intervention,
   baseline |-> baseline,
   projected |-> projected,
   improvements |-> improvements,
   costBenefit |-> CalculateCostBenefit(intervention, improvements)]

SimulationOfProjected(intervention, baseline, projected) ==
  SimulationResult(intervention, baseline, projected, Improvements(baseline, projected))

\* dept?.staff_count || 10 and dept?.bed_capacity || 20 feed the projection
SimulationOfBaseline(intervention, baseline, dept) ==
  SimulationOfProjected(intervention, baseline,
                        Projected(intervention, baseline,
                                  OrDefault(dept.staff_count, 10),
                                  OrDefault(dept.bed_capacity, 20)))

SimulateIntervention(intervention, logs, flt, depts) ==
  SimulationOfBaseline(intervention,
                       CalculateBaselineMetrics(intervention.departmentName, logs, flt, depts),
                       DepartmentRow(depts, intervention.departmentName))

\* ---------------------------------------------------- compareInterventions
\* the comparator (a, b) => b.costBenefit.roi - a.costBenefit.roi says "b
\* before a" when positive; a NaN difference counts as 0
RoiComesBefore(b, a) == XLt(XInt(0), XSub(b.costBenefit.roi, a.costBenefit.roi))

\* simulations.sort(...): stable
RECURSIVE InsertSimulation(_, _)
InsertSimulation(sorted, s) ==
  IF sorted = <<>> THEN <<s>>
  ELSE IF RoiComesBefore(s, Head(sorted)) THEN <<s>> \o sorted
  ELSE <<Head(sorted)>> \o InsertSimulation(Tail(sorted), s)

RECURSIVE SortSimulations(_)
SortSimulations(ss) ==
  IF ss = <<>> THEN <<>>
  ELSE InsertSimulation(SortSimulations(SubSeq(ss, 1, Len(ss) - 1)), ss[Len(ss)])

\* the recommendation strings, by what they say
LowCostHighImpact(simulations) ==
  SelectSeq(simulations,
            LAMBDA s : /\ RatLt(s.costBenefit.estimatedCost, RatOf(200000))
                       /\ XLt(XInt(20), s.costBenefit.impactScore))

BestRecommendations(best) ==
  <<[kind |-> "Best ROI", type |-> best.intervention.type,
     departmentName |-> best.intervention.departmentName]>>
  \o (IF XLt(XInt(20), best.improvements.losReductionPercent)
      THEN <<[kind |-> "High impact"]>> ELSE <<>>)
  \o (IF XLt(XInt(2), best.costBenefit.roi)
      THEN <<[kind |-> "Excellent return"]>> ELSE <<>>)
  \o (IF XLt(XInt(5), best.improvements.readmissionRiskReduction)
      THEN <<[kind |-> "Reduces readmission risk"]>> ELSE <<>>)

Recommendations(simulations) ==
  (IF Len(simulations) > 0 THEN BestRecommendations(simulations[1]) ELSE <<>>)
  \o (IF Len(LowCostHighImpact(simulations)) > 0
      THEN <<[kind |-> "low-cost high-impact options",
              count |-> Len(LowCostHighImpact(simulations))]>>
      ELSE <<>>)

\* null
NoSimulation == [status |-> "null"]

Comparison(simulations) ==
  [status |-> IF \E i \in DOMAIN simulations : simulations[i].status = "error"
              THEN "error" ELSE "ok",
   simulations |-> simulations,
   recommendations |-> Recommendations(simulations),
   optimalIntervention |->
     IF Len(simulations) > 0 THEN simulations[1] ELSE NoSimulation]

CompareInterventions(interventions, logs, flt, depts) ==
  Comparison(SortSimulations([i \in 1..Len(interventions) |->
                                SimulateIntervention(interventions[i], logs, flt, depts)]))

\* ---------------------------------------------------- predictReadmissionRisk
\* dates are day numbers (the columns are of type date); day 0 is a Sunday
NoDate == NoTime

PatientRecord(id, patientId, admissionDate, dischargeDate, journeySteps) ==
  [id |-> id, patientId |-> patientId, admissionDate |-> admissionDate,
   dischargeDate |-> dischargeDate, journeySteps |-> journeySteps]

\* a journey step; an undefined journeySteps is the empty list, which every
\* reader treats alike
JourneyStep(departmentId, waitTimeMinutes) ==
  [departmentId |-> departmentId, waitTimeMinutes |-> waitTimeMinutes]

\* (discharge - admission) / (1000 * 60 * 60 * 24)
CalculateLengthOfStay(admissionDate, dischargeDate) == dischargeDate - admissionDate

\* record.admissionDate && record.dischargeDate ? calculateLengthOfStay(..) : 0
LengthOfStay(record) ==
  IF record.admissionDate # NoDate /\ record.dischargeDate # NoDate
  THEN CalculateLengthOfStay(record.admissionDate, record.dischargeDate)
  ELSE 0

Factor(name, impact) == [factor |-> name, impact |-> impact]

\* if (lengthOfStay > 0) { if (< 2) +25 else if (> 14) +20 }
StayFactors(lengthOfStay) ==
  IF lengthOfStay > 0 /\ lengthOfStay < 2 THEN <<Factor("Short Length of Stay", 25)>>
  ELSE IF lengthOfStay > 0 /\ lengthOfStay > 14 THEN <<Factor("Extended Length of Stay", 20)>>
  ELSE <<>>

RECURSIVE TotalWaitTime(_)
TotalWaitTime(steps) ==
  IF steps = <<>> THEN 0 ELSE Head(steps).waitTimeMinutes + TotalWaitTime(Tail(steps))

\* calculateOperationalDelayScore: by the average wait per step
CalculateOperationalDelayScore(record) ==
  IF Len(record.journeySteps) = 0 THEN 0
  ELSE LET avgWaitPerStep == Rat(TotalWaitTime(record.journeySteps), Len(record.journeySteps))
       IN  IF RatLt(RatOf(120), avgWaitPerStep) THEN 30
           ELSE IF RatLt(RatOf(90), avgWaitPerStep) THEN 20
           ELSE IF RatLt(RatOf(60), avgWaitPerStep) THEN 10
           ELSE 0

DelayFactors(record) ==
  IF CalculateOperationalDelayScore(record) > 0
  THEN <<Factor("Operational Delays", CalculateOperationalDelayScore(record))>>
  ELSE <<>>

\* journeySteps.length > 5: +15
TransferFactors(record) ==
  IF Len(record.journeySteps) > 5 THEN <<Factor("Multiple Department Transfers", 15)>>
  ELSE <<>>

\* historicalRecords.filter(r => r.patientId === record.patientId && r.id !== record.id)
PatientHistory(record, historicalRecords) ==
  SelectSeq(historicalRecords, LAMBDA r : r.patientId = record.patientId /\ r.id # record.id)

\* daysDiff > 0 && daysDiff < 90, false when an admission date is missing
IsRecentVisitInclusive(record, r) ==
  /\ r.admissionDate # NoDate
  /\ record.admissionDate # NoDate
  /\ record.admissionDate - r.admissionDate > 0
  /\ record.admissionDate - r.admissionDate <= 90

IsRecentVisit(record, r) ==
  /\ r.admissionDate # NoDate
  /\ record.admissionDate # NoDate
  /\ record.admissionDate - r.admissionDate > 0
  /\ record.admissionDate - r.admissionDate < 90

RecentVisits(record, historicalRecords) ==
  SelectSeq(PatientHistory(record, historicalRecords), LAMBDA r : IsRecentVisit(record, r))

\* Math.min(30, recentVisits.length * 15), pushed when there is a recent visit
VisitFactors(recentVisits) ==
  IF Len(recentVisits) > 0
  THEN <<Factor("Recent Hospital Visits", Min(30, Len(recentVisits) * 15))>>
  ELSE <<>>

\* new Date(date).getDay(): 0 is Sunday, 5 Friday, 6 Saturday.  A date
\* without a time is midnight UTC, and getDay() reads it in local time:
\* west of Greenwich (daysBehind = 1) it is still the previous day
GetDay(date, daysBehind) == (date - daysBehind) % 7

\* the "Weekend Discharge" factor reads record.admissionDate
WeekendFactors(record, daysBehind) ==
  IF record.admissionDate # NoDate
  THEN IF GetDay(record.admissionDate, daysBehind) = 5
          \/ GetDay(record.admissionDate, daysBehind) = 6
       THEN <<Factor("Weekend Discharge", 10)>>
       ELSE <<>>
  ELSE <<>>

\* the factors in the order they are pushed
ContributingFactors(record, historicalRecords, daysBehind) ==
  StayFactors(LengthOfStay(record))
  \o DelayFactors(record)
  \o TransferFactors(record)
  \o VisitFactors(RecentVisits(record, historicalRecords))
  \o WeekendFactors(record, daysBehind)

RECURSIVE TotalImpact(_)
TotalImpact(factors) ==
  IF factors = <<>> THEN 0 ELSE Head(factors).impact + TotalImpact(Tail(factors))

RiskLevel(totalRiskScore) ==
  IF totalRiskScore >= 70 THEN "critical"
  ELSE IF totalRiskScore >= 50 THEN "high"
  ELSE IF totalRiskScore >= 30 THEN "medium"
  ELSE "low"

DaysUntilReadmission(riskLevel) ==
  IF riskLevel = "critical" THEN 7
  ELSE IF riskLevel = "high" THEN 14
  ELSE IF riskLevel = "medium" THEN 30
  ELSE 90

\* new Date(record.dischargeDate || new Date()) plus daysUntilReadmission
EstimatedReadmissionDate(record, riskLevel, today) ==
  (IF record.dischargeDate # NoDate THEN record.dischargeDate ELSE today)
  + DaysUntilReadmission(riskLevel)

\* the two recommendations of a factor
FactorRecommendations(factor) ==
  IF factor.factor = "Short Length of Stay"
  THEN <<"discharge planning and patient education", "verify understanding of medications">>
  ELSE IF factor.factor = "Extended Length of Stay"
  THEN <<"coordinate with specialist", "post-discharge care plan with primary care">>
  ELSE IF factor.factor = "Operational Delays"
  THEN <<"review care coordination", "review pending test results before discharge">>
  ELSE IF factor.factor = "Multiple Department Transfers"
  THEN <<"assign care coordinator", "medication reconciliation">>
  ELSE IF factor.factor = "Recent Hospital Visits"
  THEN <<"chronic disease management program", "palliative care consultation">>
  ELSE IF factor.factor = "Weekend Discharge"
  THEN <<"24/7 contact information", "next-day follow-up call">>
  ELSE <<>>

RECURSIVE AllFactorRecommendations(_)
AllFactorRecommendations(factors) ==
  IF factors = <<>> THEN <<>>
  ELSE FactorRecommendations(Head(factors)) \o AllFactorRecommendations(Tail(factors))

\* Array.from(new Set(recommendations)): first occurrences, in order
RECURSIVE Distinct(_, _)
Distinct(items, seen) ==
  IF items = <<>> THEN seen
  ELSE IF \E i \in DOMAIN seen : seen[i] = Head(items) THEN Distinct(Tail(items), seen)
  ELSE Distinct(Tail(items), Append(seen, Head(items)))

WholeList(items) == items

\* .slice(0, 5)
FirstFive(items) == SubSeq(items, 1, Min(5, Len(items)))

GenerateRecommendations(factors, riskLevel) ==
  FirstFive(Distinct(
    (IF riskLevel = "critical" \/ riskLevel = "high"
     THEN <<"follow-up appointment within 48-72 hours", "home health care visit">>
     ELSE <<>>)
    \o AllFactorRecommendations(factors), <<>>))

\* identifyHighRiskDepartments: departments of the steps that waited > 120
RECURSIVE HighRiskDepartments(_, _)
HighRiskDepartments(steps, found) ==
  IF steps = <<>> THEN found
  ELSE IF Head(steps).waitTimeMinutes > 120
          /\ ~\E i \in DOMAIN found : found[i] = Head(steps).departmentId
  THEN HighRiskDepartments(Tail(steps), Append(found, Head(steps).departmentId))
  ELSE HighRiskDepartments(Tail(steps), found)

\* factors.sort((a, b) => b.impact - a.impact): stable
RECURSIVE InsertFactor(_, _)
InsertFactor(sorted, f) ==
  IF sorted = <<>> THEN <<f>>
  ELSE IF f.impact - Head(sorted).impact > 0 THEN <<f>> \o sorted
  ELSE <<Head(sorted)>> \o InsertFactor(Tail(sorted), f)

RECURSIVE SortFactors(_)
SortFactors(fs) ==
  IF fs = <<>> THEN <<>>
  ELSE InsertFactor(SortFactors(SubSeq(fs, 1, Len(fs) - 1)), fs[Len(fs)])

\* the returned ReadmissionRisk
ReadmissionRisk(record, factors, riskLevel, today) ==
  [status |-> "ok",
   recordId |-> record.id,
   patientId |-> record.patientId,
   riskScore |-> TotalImpact(factors),
   riskLevel |-> riskLevel,
   contributingFactors |-> SortFactors(factors),
   estimatedReadmissionDate |-> EstimatedReadmissionDate(record, riskLevel, today),
   preventionRecommendations |-> GenerateRecommendations(factors, riskLevel),
   delayInfluence |-> CalculateOperationalDelayScore(record),
   departmentRisk |-> HighRiskDepartments(record.journeySteps, <<>>)]

RiskOfFactors(record, factors, today) ==
  ReadmissionRisk(record, factors, RiskLevel(TotalImpact(factors)), today)

PredictReadmissionRisk(record, historicalRecords, today, daysBehind) ==
  RiskOfFactors(record, ContributingFactors(record, historicalRecords, daysBehind), today)

\* -------------------------------------------------------- predictBottlenecks
\* the fields of a PatientRecord the predictions read; currentDepartment is
\* NoId for a patient who is in no department
CurrentPatient(currentDepartment, admissionDate, journeySteps) ==
  [currentDepartment |-> currentDepartment, admissionDate |-> admissionDate,
   journeySteps |-> journeySteps]

\* step.waitTimeMinutes > 60
IsDelayInclusive(waitTimeMinutes) == waitTimeMinutes >= 60

IsDelay(waitTimeMinutes) == waitTimeMinutes > 60

RECURSIVE DelaysOfSteps(_)
DelaysOfSteps(steps) ==
  IF steps = <<>> THEN <<>>
  ELSE (IF IsDelay(Head(steps).waitTimeMinutes) THEN <<Head(steps).waitTimeMinutes>> ELSE <<>>)
       \o DelaysOfSteps(Tail(steps))

\* the names of the departments in the order the Map first sees them
RECURSIVE DepartmentNames(_, _)
DepartmentNames(rs, seen) ==
  IF rs = <<>> THEN seen
  ELSE IF Head(rs).currentDepartment = NoId
          \/ \E i \in DOMAIN seen : seen[i] = Head(rs).currentDepartment
  THEN DepartmentNames(Tail(rs), seen)
  ELSE DepartmentNames(Tail(rs), Append(seen, Head(rs).currentDepartment))

PatientsIn(rs, dept) == SelectSeq(rs, LAMBDA r : r.currentDepartment = dept)

RECURSIVE DelaysOfPatients(_)
DelaysOfPatients(rs) ==
  IF rs = <<>> THEN <<>>
  ELSE DelaysOfSteps(Head(rs).journeySteps) \o DelaysOfPatients(Tail(rs))

\* peakHours: an admission date without a time is midnight UTC, so getHours()
\* is the same hour for every patient and the map has at most one key, whose
\* count is the number of patients with an admission date
PeakHourCount(patients) == Len(SelectSeq(patients, LAMBDA r : r.admissionDate # NoDate))

\* the metrics of one department after the records.forEach
DepartmentMetric(dept, patients) ==
  [name |-> dept,
   totalPatients |-> Len(patients),
   delays |-> DelaysOfPatients(patients),
   peakHourCount |-> PeakHourCount(patients)]

\* Math.max(...peakHours.values()): -Infinity for an empty map
MaxPeakVolume(metrics) ==
  IF metrics.peakHourCount > 0 THEN XInt(metrics.peakHourCount) ELSE NegInf

\* totalPatients / Math.max(1, peakHours.size)
AvgVolume(metrics) == XInt(metrics.totalPatients)

AvgDelay(metrics) ==
  IF Len(metrics.delays) > 0 THEN Rat(SumSeq(metrics.delays), Len(metrics.delays)) ELSE Zero

DelayFrequency(metrics) == Rat(Len(metrics.delays), metrics.totalPatients)

\* the if / else-if chain on delayFrequency and avgDelay
PredictedRiskLevel(delayFrequency, avgDelay) ==
  IF RatLt(Rat(3, 10), delayFrequency) /\ RatLt(RatOf(120), avgDelay) THEN "critical"
  ELSE IF RatLt(Rat(2, 10), delayFrequency) \/ RatLt(RatOf(90), avgDelay) THEN "high"
  ELSE IF RatLt(Rat(1, 10), delayFrequency) \/ RatLt(RatOf(60), avgDelay) THEN "medium"
  ELSE "low"

Probability(riskLevel) ==
  IF riskLevel = "critical" THEN Rat(85, 100)
  ELSE IF riskLevel = "high" THEN Rat(65, 100)
  ELSE IF riskLevel = "medium" THEN Rat(40, 100)
  ELSE Rat(15, 100)

DaysUntil(riskLevel) ==
  IF riskLevel = "critical" THEN 3
  ELSE IF riskLevel = "high" THEN 7
  ELSE IF riskLevel = "medium" THEN 14
  ELSE 30

\* peakRatio > 1.5 ? ... : delayFrequency > 0.2 ? ... : ...
HistoricalPattern(metrics) ==
  IF XLt(XNum(Rat(3, 2)), XDiv(MaxPeakVolume(metrics), AvgVolume(metrics)))
  THEN "Peak hour congestion pattern"
  ELSE IF RatLt(Rat(2, 10), DelayFrequency(metrics)) THEN "Consistent delay pattern"
  ELSE "Capacity constraint pattern"

\* Math.round of a fraction: halves go up
RoundHalfUp(r) == (2 * r[1] + r[2]) \div (2 * r[2])

BottleneckPrediction(metrics, riskLevel, now) ==
  [departmentName |-> metrics.name,
   riskLevel |-> riskLevel,
   predictedDate |-> now + DaysUntil(riskLevel),
   probability |-> Probability(riskLevel),
   expectedImpact |-> RoundHalfUp(RatMul(AvgDelay(metrics), DelayFrequency(metrics))),
   historicalPattern |-> HistoricalPattern(metrics)]

PredictionOf(metrics, now) ==
  BottleneckPrediction(metrics,
                       PredictedRiskLevel(DelayFrequency(metrics), AvgDelay(metrics)), now)

\* predictions.sort((a, b) => b.probability - a.probability): stable
RECURSIVE InsertPrediction(_, _)
InsertPrediction(sorted, p) ==
  IF sorted = <<>> THEN <<p>>
  ELSE IF RatLt(Head(sorted).probability, p.probability) THEN <<p>> \o sorted
  ELSE <<Head(sorted)>> \o InsertPrediction(Tail(sorted), p)

RECURSIVE SortPredictions(_)
SortPredictions(ps) ==
  IF ps = <<>> THEN <<>>
  ELSE InsertPrediction(SortPredictions(SubSeq(ps, 1, Len(ps) - 1)), ps[Len(ps)])

PredictionsOfDepartments(rs, names, now) ==
  [i \in DOMAIN names |-> PredictionOf(DepartmentMetric(names[i], PatientsIn(rs, names[i])), now)]

PredictBottlenecks(rs, now) ==
  SortPredictions(PredictionsOfDepartments(rs, DepartmentNames(rs, <<>>), now))

\* -------------------------------------------------------- forecastAdmissions
\* the admission days of the records, ascending and without repetition
AdmissionDays(rs) == {rs[i].admissionDate : i \in {j \in DOMAIN rs : rs[j].admissionDate # NoDate}}

RECURSIVE SortedDays(_)
SortedDays(S) ==
  IF S = {} THEN <<>>
  ELSE LET first == CHOOSE d \in S : \A e \in S : d <= e
       IN  <<first>> \o SortedDays(S \ {first})

\* dailyAdmissions.get(date): the number of records admitted that day
AdmissionsOn(rs, day) == Len(SelectSeq(rs, LAMBDA r : r.admissionDate = day))

\* the counts of the days that have an admission, in date order
AdmissionValues(rs, sortedDates) ==
  [i \in DOMAIN sortedDates |-> AdmissionsOn(rs, sortedDates[i])]

\* exponentialSmoothing(values, 0.3)
RECURSIVE ExponentialSmoothing(_)
ExponentialSmoothing(vs) ==
  IF vs = <<>> THEN <<>>
  ELSE IF Len(vs) = 1 THEN <<RatOf(vs[1])>>
  ELSE LET before == ExponentialSmoothing(SubSeq(vs, 1, Len(vs) - 1))
       IN  Append(before,
                  RatAdd(RatMul(Rat(3, 10), RatOf(vs[Len(vs)])),
                         RatMul(Rat(7, 10), before[Len(before)])))

RECURSIVE SumRats(_)
SumRats(rs) == IF rs = <<>> THEN Zero ELSE RatAdd(Head(rs), SumRats(Tail(rs)))

\* calculateTrend: the least-squares slope over the indices 0 .. n - 1
TrendNumerator(vs, xMean, yMean) ==
  SumRats([i \in DOMAIN vs |->
             RatMul(RatSub(RatOf(i - 1), xMean), RatSub(vs[i], yMean))])

TrendDenominator(vs, xMean) ==
  SumRats([i \in DOMAIN vs |->
             RatMul(RatSub(RatOf(i - 1), xMean), RatSub(RatOf(i - 1), xMean))])

SlopeOf(numerator, denominator) ==
  IF denominator = Zero THEN Zero ELSE RatDiv(numerator, denominator)

CalculateTrend(vs) ==
  IF Len(vs) < 2 THEN Zero
  ELSE SlopeOf(TrendNumerator(vs, Rat(Len(vs) - 1, 2), RatDiv(SumRats(vs), RatOf(Len(vs)))),
               TrendDenominator(vs, Rat(Len(vs) - 1, 2)))

\* the population variance of the counts; stdDev is its square root
RECURSIVE SumSquaredDiffs(_, _, _)
SumSquaredDiffs(vs, total, n) ==
  IF vs = <<>> THEN 0
  ELSE (n * Head(vs) - total) * (n * Head(vs) - total) + SumSquaredDiffs(Tail(vs), total, n)

AdmissionVariance(vs) ==
  Rat(SumSquaredDiffs(vs, SumSeq(vs), Len(vs)), Len(vs) * Len(vs) * Len(vs))

\* Math.sin((i / 7) * 2 * Math.PI) to three decimals
SinOfSevenths(i) ==
  IF i % 7 = 1 THEN Rat(782, 1000)
  ELSE IF i % 7 = 2 THEN Rat(975, 1000)
  ELSE IF i % 7 = 3 THEN Rat(434, 1000)
  ELSE IF i % 7 = 4 THEN Rat(-434, 1000)
  ELSE IF i % 7 = 5 THEN Rat(-975, 1000)
  ELSE IF i % 7 = 6 THEN Rat(-782, 1000)
  ELSE Zero

SeasonalFactor(i) == RatAdd(RatOf(1), RatMul(Rat(1, 10), SinOfSevenths(i)))

\* Math.max(0, Math.round((lastValue + trend * i) * seasonalFactor))
PredictedAdmissions(lastValue, trend, i) ==
  Max(0, RoundHalfUp(RatMul(RatAdd(lastValue, RatMul(trend, RatOf(i))), SeasonalFactor(i))))

\* Math.round(1.96 * stdDev) upwards and downwards of an integer p:
\* round(p + x) = p + k for the largest k with k - 1/2 <= x, and
\* round(p - x) = p - j for the smallest j with j + 1/2 >= x, where
\* x = 1.96 * sqrt(variance); both are decided on the squares
RECURSIVE MarginUp(_, _)
MarginUp(variance, k) ==
  IF (2 * k + 1) * (2 * k + 1) * 10000 * variance[2] <= 4 * 196 * 196 * variance[1]
  THEN MarginUp(variance, k + 1)
  ELSE k

RECURSIVE MarginDown(_, _)
MarginDown(variance, j) ==
  IF (2 * j + 1) * (2 * j + 1) * 10000 * variance[2] >= 4 * 196 * 196 * variance[1]
  THEN j
  ELSE MarginDown(variance, j + 1)

UpperBound(predicted, variance) == predicted + MarginUp(variance, 0)

LowerBound(predicted, variance) == Max(0, predicted - MarginDown(variance, 0))

TrendDirection(trend) ==
  IF RatLt(Rat(1, 2), trend) THEN "increasing"
  ELSE IF RatLt(trend, Rat(-1, 2)) THEN "decreasing"
  ELSE "stable"

\* forecastDate.setDate(getDate() + i) moves the local date, toISOString()
\* prints the UTC date.  lastDate is midnight UTC; once the local clock has
\* gone forward an hour (from the i-th day on, i = clockForward) the same
\* local time is 23:00 UTC of the day before
ForecastDate(lastDate, i, clockForward) ==
  IF i >= clockForward THEN lastDate + i - 1 ELSE lastDate + i

AdmissionForecast(lastDate, lastValue, trend, variance, i, clockForward) ==
  [date |-> ForecastDate(lastDate, i, clockForward),
   predictedAdmissions |-> PredictedAdmissions(lastValue, trend, i),
   lower |-> LowerBound(PredictedAdmissions(lastValue, trend, i), variance),
   upper |-> UpperBound(PredictedAdmissions(lastValue, trend, i), variance),
   trend |-> TrendDirection(trend)]

ForecastsOf(sortedDates, admissionValues, smoothed, days, clockForward) ==
  [i \in 1..days |->
     AdmissionForecast(sortedDates[Len(sortedDates)], smoothed[Len(smoothed)],
                       CalculateTrend(smoothed), AdmissionVariance(admissionValues),
                       i, clockForward)]

ForecastOfValues(sortedDates, admissionValues, days, clockForward) ==
  IF Len(admissionValues) = 0 THEN <<>>
  ELSE ForecastsOf(sortedDates, admissionValues, ExponentialSmoothing(admissionValues),
                   days, clockForward)

ForecastOfDates(rs, sortedDates, days, clockForward) ==
  ForecastOfValues(sortedDates, AdmissionValues(rs, sortedDates), days, clockForward)

ForecastAdmissions(rs, days, clockForward) ==
  ForecastOfDates(rs, SortedDays(AdmissionDays(rs)), days, clockForward)

\* ------------------------------------------------------------ state machine
Departments == {"A", "B"}

Filters == {NoFilter} \cup Departments

Log(p, d, e, x) == [patient |-> p, dept |-> d, entry |-> e, exit |-> x]

\* the rows an upload can add: well-formed stays of two patients, a stay
\* whose exit precedes its entry, an open stay (no exit_time), a row whose
\* patient has an empty patient_id and a row without a department
LogPool ==
  {Log("p1", "A", 0, 4), Log("p1", "A", 0, 5), Log("p1", "A", 0, 6),
   Log("p1", "B", 11, 20), Log("p1", "B", 11, 4), Log("p1", "B", 80, 90),
   Log("p1", "A", 25, 30),
   Log("p2", "A", 0, 4), Log("p2", "B", 11, 20),
   Log(NoId, "A", 0, 5), Log("p1", "B", 11, NoTime),
   Log("p1", NoId, 0, 5)}

Init ==
  /\ flowLogs = <<>>
  /\ op = "init"
  /\ filters = NoFilter
  /\ journeys = <<>>
  /\ propagations = <<>>
  /\ deptMetrics = <<>>
  /\ bottlenecks = <<>>
  /\ values = <<>>
  /\ stats = NoStats
  /\ departments = <<>>
  /\ simulation = NoOutcome
  /\ comparison = NoOutcome
  /\ records = <<>>
  /\ risk = NoOutcome
  /\ predictions = NoOutcome
  /\ forecasts = NoOutcome
  /\ deptDelays = NoOutcome
  /\ csvRows = <<>>
  /\ cleanResult = NoOutcome
  /\ files = {}
  /\ uploadStatuses = <<>>
  /\ isUploading = FALSE
  /\ uploader = Idle

\* a row is stored in department_flow_logs; earlier results are gone
InsertFlowLog(log) ==
  /\ Len(flowLogs) < MaxLogs
  /\ flowLogs' = Append(flowLogs, log)
  /\ op' = "insert"
  /\ filters' = NoFilter
  /\ journeys' = <<>>
  /\ propagations' = <<>>
  /\ deptMetrics' = <<>>
  /\ bottlenecks' = <<>>
  /\ UNCHANGED <<values, stats>>
  /\ UNCHANGED <<simVars, riskVars, predVars, ingestVars>>

CallGetPatientJourneys(flt) ==
  /\ journeys' = GetPatientJourneys(flowLogs, flt)
  /\ op' = "getPatientJourneys"
  /\ filters' = flt
  /\ propagations' = <<>>
  /\ deptMetrics' = <<>>
  /\ bottlenecks' = <<>>
  /\ UNCHANGED <<flowLogs, values, stats>>
  /\ UNCHANGED <<simVars, riskVars, predVars, ingestVars>>

CallGetDelayPropagationMap(flt) ==
  /\ propagations' = GetDelayPropagationMap(flowLogs, flt)
  /\ op' = "getDelayPropagationMap"
  /\ filters' = flt
  /\ journeys' = <<>>
  /\ deptMetrics' = <<>>
  /\ bottlenecks' = <<>>
  /\ UNCHANGED <<flowLogs, values, stats>>
  /\ UNCHANGED <<simVars, riskVars, predVars, ingestVars>>

NextJ ==
  \/ \E log \in LogPool : InsertFlowLog(log)
  \/ \E flt \in Filters : CallGetPatientJourneys(flt)
  \/ \E flt \in Filters : CallGetDelayPropagationMap(flt)

SpecJ == Init /\ [][NextJ]_vars

\* the stays of one patient: a single stay in B of 8 or 25 minutes, or a
\* stay in A then, after a wait of 0 or 6 minutes, a stay in B (0 and 0, or
\* 25 and 8 minutes)
VisitRow(d, e, x) == [dept |-> d, entry |-> e, exit |-> x]

Visits ==
  {<<VisitRow("B", 0, d)>> : d \in {8, 25}}
  \cup {<<VisitRow("A", 0, d[1]), VisitRow("B", d[1] + g, d[1] + g + d[2])>> :
          d \in {<<0, 0>>, <<25, 8>>}, g \in {0, 6}}

NumPatients == Cardinality({flowLogs[i].patient : i \in DOMAIN flowLogs})

\* the rows of a further patient's visit are stored; earlier results are gone
AdmitPatient(visit) ==
  /\ NumPatients < MaxPatients
  /\ flowLogs' = flowLogs \o
       [i \in 1..Len(visit) |->
          Log(ToString(NumPatients + 1), visit[i].dept, visit[i].entry, visit[i].exit)]
  /\ op' = "insert"
  /\ filters' = NoFilter
  /\ journeys' = <<>>
  /\ propagations' = <<>>
  /\ deptMetrics' = <<>>
  /\ bottlenecks' = <<>>
  /\ UNCHANGED <<values, stats>>
  /\ UNCHANGED <<simVars, riskVars, predVars, ingestVars>>

\* one run of detectBottlenecks, recorded in op under the given name
RunDetectBottlenecks(flt, name) ==
  /\ deptMetrics' = MetricsOf(flowLogs, flt)
  /\ bottlenecks' = DetectBottlenecksInto(BottlenecksSoFar(bottlenecks), deptMetrics')
  /\ op' = name
  /\ filters' = flt
  /\ journeys' = <<>>
  /\ propagations' = <<>>
  /\ UNCHANGED <<flowLogs, values, stats>>
  /\ UNCHANGED <<simVars, riskVars, predVars, ingestVars>>

CallDetectBottlenecks(flt) == RunDetectBottlenecks(flt, "detectBottlenecks")

NextB ==
  \/ \E visit \in Visits : AdmitPatient(visit)
  \/ \E flt \in Filters : CallDetectBottlenecks(flt)

SpecB == Init /\ [][NextB]_vars

\* detectBottlenecks is run again with the filters of the run before it and
\* nothing stored in between
CallDetectBottlenecksAgain(flt) ==
  /\ op \in {"detectBottlenecks", "detectBottlenecksAgain"}
  /\ filters = flt
  /\ RunDetectBottlenecks(flt, "detectBottlenecksAgain")

NextAgain ==
  \/ \E visit \in Visits : AdmitPatient(visit)
  \/ \E flt \in Filters : CallDetectBottlenecks(flt)
  \/ \E flt \in Filters : CallDetectBottlenecksAgain(flt)

SpecAgain == Init /\ [][NextAgain]_vars

\* calculateStatistics applied to bounded sample lists
Samples == {0, 30, 90, 150}

RECURSIVE SeqsUpTo(_, _)
SeqsUpTo(S, n) ==
  IF n = 0 THEN {<<>>}
  ELSE LET shorter == SeqsUpTo(S, n - 1)
       IN  shorter \cup {Append(q, x) : q \in {r \in shorter : Len(r) = n - 1}, x \in S}

InitS ==
  /\ flowLogs = <<>>
  /\ op = "init"
  /\ filters = NoFilter
  /\ journeys = <<>>
  /\ propagations = <<>>
  /\ deptMetrics = <<>>
  /\ bottlenecks = <<>>
  /\ values \in SeqsUpTo(Samples, MaxLen)
  /\ stats = NoStats
  /\ departments = <<>>
  /\ simulation = NoOutcome
  /\ comparison = NoOutcome
  /\ records = <<>>
  /\ risk = NoOutcome
  /\ predictions = NoOutcome
  /\ forecasts = NoOutcome
  /\ deptDelays = NoOutcome
  /\ csvRows = <<>>
  /\ cleanResult = NoOutcome
  /\ files = {}
  /\ uploadStatuses = <<>>
  /\ isUploading = FALSE
  /\ uploader = Idle

CallCalculateStatistics ==
  /\ op = "init"
  /\ stats' = CalculateStatistics(values)
  /\ op' = "calculateStatistics"
  /\ UNCHANGED <<flowLogs, filters, journeys, propagations, deptMetrics, bottlenecks, values>>
  /\ UNCHANGED <<simVars, riskVars, predVars, ingestVars>>

NextS == CallCalculateStatistics

SpecS == InitS /\ [][NextS]_vars

\* simulateIntervention and compareInterventions over a few stays and
\* department rows
MaxStays == 3
MaxInterventions == 2

StayPool == {Log("p1", "A", 0, 4), Log("p2", "A", 0, 8), Log("p1", "B", 10, 250)}

DeptTables ==
  {<<>>,
   <<[name |-> "A", bed_capacity |-> 2, staff_count |-> 4]>>,
   <<[name |-> "A", bed_capacity |-> 0, staff_count |-> NoCount]>>}

InterventionTypes == {"staff", "beds", "processing_time", "equipment"}

Magnitudes == {0, 2, 30}

Intervention(t, d, v) == [type |-> t, departmentName |-> d, value |-> v]

Interventions ==
  {Intervention(t, d, v) : t \in InterventionTypes, d \in Departments, v \in Magnitudes}

\* the interventions compared with one another
Compared ==
  {Intervention("staff", "A", 2), Intervention("beds", "A", 2),
   Intervention("processing_time", "A", 30), Intervention("staff", "B", 2),
   Intervention("equipment", "A", 2)}

InitSim ==
  /\ flowLogs = <<>>
  /\ op = "init"
  /\ filters = NoFilter
  /\ journeys = <<>>
  /\ propagations = <<>>
  /\ deptMetrics = <<>>
  /\ bottlenecks = <<>>
  /\ values = <<>>
  /\ stats = NoStats
  /\ departments \in DeptTables
  /\ simulation = NoOutcome
  /\ comparison = NoOutcome
  /\ records = <<>>
  /\ risk = NoOutcome
  /\ predictions = NoOutcome
  /\ forecasts = NoOutcome
  /\ deptDelays = NoOutcome
  /\ csvRows = <<>>
  /\ cleanResult = NoOutcome
  /\ files = {}
  /\ uploadStatuses = <<>>
  /\ isUploading = FALSE
  /\ uploader = Idle

\* a stay is stored in department_flow_logs; earlier results are gone
AddStay(log) ==
  /\ Len(flowLogs) < MaxStays
  /\ flowLogs' = Append(flowLogs, log)
  /\ op' = "insert"
  /\ filters' = NoFilter
  /\ simulation' = NoOutcome
  /\ comparison' = NoOutcome
  /\ UNCHANGED <<journeys, propagations, deptMetrics, bottlenecks, values, stats,
                 departments, riskVars, predVars, ingestVars>>

\* a call reads the stored rows only, so it is taken from the state the
\* last insert left
CallSimulateIntervention(intervention, flt) ==
  /\ op \in {"init", "insert"}
  /\ simulation' = SimulateIntervention(intervention, flowLogs, flt, departments)
  /\ op' = "simulateIntervention"
  /\ filters' = flt
  /\ comparison' = NoOutcome
  /\ UNCHANGED <<flowLogs, journeys, propagations, deptMetrics, bottlenecks, values,
                 stats, departments, riskVars, predVars, ingestVars>>

CallCompareInterventions(interventions) ==
  /\ op \in {"init", "insert"}
  /\ comparison' = CompareInterventions(interventions, flowLogs, NoFilter, departments)
  /\ op' = "compareInterventions"
  /\ filters' = NoFilter
  /\ simulation' = NoOutcome
  /\ UNCHANGED <<flowLogs, journeys, propagations, deptMetrics, bottlenecks, values,
                 stats, departments, riskVars, predVars, ingestVars>>

\* calculateCostBenefit applied to improvements of any sign
Tenths == {-167, 0, 5, 125}

ImprovementsPool ==
  {[losReduction |-> XInt(0),
    losReductionPercent |-> XNum(Rat(l, 10)),
    bedUtilizationChange |-> XNum(Rat(u, 10)),
    readmissionRiskReduction |-> XNum(Rat(r, 10)),
    patientsImpacted |-> XInt(n)] :
      l \in Tenths, u \in Tenths, r \in {0, 5}, n \in {0, 3}}

CallCalculateCostBenefit(intervention, improvements) ==
  /\ op = "init"
  /\ simulation' = [status |-> "ok",
                    intervention |-> intervention,
                    improvements |-> improvements,
                    costBenefit |-> CalculateCostBenefit(intervention, improvements)]
  /\ op' = "calculateCostBenefit"
  /\ UNCHANGED <<flowLogs, filters, journeys, propagations, deptMetrics, bottlenecks,
                 values, stats, departments, comparison, riskVars, predVars, ingestVars>>

NextSim ==
  \/ \E log \in StayPool : AddStay(log)
  \/ \E i \in Compared, im \in ImprovementsPool : CallCalculateCostBenefit(i, im)
  \/ \E i \in Interventions, flt \in {NoFilter, "B"} : CallSimulateIntervention(i, flt)
  \/ \E is \in SeqsUpTo(Compared, MaxInterventions) : CallCompareInterventions(is)

SpecSim == InitSim /\ [][NextSim]_vars

\* predictReadmissionRisk over a few admissions.  Days are numbered from a
\* Sunday: day 100 is a Tuesday, 96 a Friday, 97 a Saturday
MaxRecords == 4

SixWaits(w) == [i \in 1..6 |-> JourneyStep(IF i % 2 = 0 THEN "B" ELSE "A", w)]

\* admissions without their row id: <<patientId, admission, discharge, steps>>
RecordPool ==
  {<<"p1", 100, 101, <<>>>>,
   <<"p1", 99, 99, <<JourneyStep("A", 60)>>>>,
   <<"p1", 10, 26, <<>>>>,
   <<"p1", 11, 14, SixWaits(70)>>,
   <<"p2", 97, 99, <<JourneyStep("A", 200)>>>>,
   <<"p1", 104, 105, SixWaits(130)>>,
   <<"p1", 98, NoDate, <<>>>>,
   <<"p1", NoDate, 50, <<JourneyStep("B", 100)>>>>}

Todays == {106, 110}

ZoneOffsets == {0, 1}

\* another admission is in the list; its id is its row number
AddRecord(r) ==
  /\ op \in {"init", "insert"}
  /\ Len(records) < MaxRecords
  /\ records' = Append(records, PatientRecord(Len(records) + 1, r[1], r[2], r[3], r[4]))
  /\ op' = "insert"
  /\ UNCHANGED <<flowLogs, filters, journeys, propagations, deptMetrics, bottlenecks,
                 values, stats, simVars, risk, predVars, ingestVars>>

\* predictReadmissionRisk(records[i], records); a call reads only the list
CallPredictReadmissionRisk(i, today, daysBehind) ==
  /\ op \in {"init", "insert"}
  /\ i \in DOMAIN records
  /\ risk' = PredictReadmissionRisk(records[i], records, today, daysBehind)
  /\ op' = "predictReadmissionRisk"
  /\ UNCHANGED <<flowLogs, filters, journeys, propagations, deptMetrics, bottlenecks,
                 values, stats, simVars, records, predVars, ingestVars>>

NextR ==
  \/ \E r \in RecordPool : AddRecord(r)
  \/ \E i \in 1..MaxRecords, today \in Todays, daysBehind \in ZoneOffsets :
       CallPredictReadmissionRisk(i, today, daysBehind)

SpecR == Init /\ [][NextR]_vars

\* predictBottlenecks over the patients of two departments: in A one patient
\* with the given waits and a number of patients without delays, in B at most
\* one patient
MaxQuiet == 9

WaitPool == {<<>>, <<60>>, <<70>>, <<100>>, <<130>>, <<130, 130, 130>>}

StepsOfWaits(dept, waits) == [i \in DOMAIN waits |-> JourneyStep(dept, waits[i])]

WardA(waits, quiet) ==
  <<CurrentPatient("A", NoDate, StepsOfWaits("A", waits))>>
  \o [i \in 1..quiet |-> CurrentPatient("A", 100, <<JourneyStep("A", 30)>>)]

WardB ==
  {<<>>,
   <<CurrentPatient("B", 100, <<JourneyStep("B", 130)>>)>>,
   <<CurrentPatient("B", 100, <<>>)>>,
   <<CurrentPatient(NoId, 100, <<JourneyStep("B", 200)>>)>>}

Wards == {WardA(waits, quiet) \o b : waits \in WaitPool, quiet \in 0..MaxQuiet, b \in WardB}

InitP ==
  /\ flowLogs = <<>>
  /\ op = "init"
  /\ filters = NoFilter
  /\ journeys = <<>>
  /\ propagations = <<>>
  /\ deptMetrics = <<>>
  /\ bottlenecks = <<>>
  /\ values = <<>>
  /\ stats = NoStats
  /\ departments = <<>>
  /\ simulation = NoOutcome
  /\ comparison = NoOutcome
  /\ records \in Wards
  /\ risk = NoOutcome
  /\ predictions = NoOutcome
  /\ forecasts = NoOutcome
  /\ deptDelays = NoOutcome
  /\ csvRows = <<>>
  /\ cleanResult = NoOutcome
  /\ files = {}
  /\ uploadStatuses = <<>>
  /\ isUploading = FALSE
  /\ uploader = Idle

CallPredictBottlenecks(now) ==
  /\ op = "init"
  /\ predictions' = [status |-> "ok", now |-> now, items |-> PredictBottlenecks(records, now)]
  /\ op' = "predictBottlenecks"
  /\ UNCHANGED <<flowLogs, filters, journeys, propagations, deptMetrics, bottlenecks,
                 values, stats, simVars, riskVars, forecasts, deptDelays, ingestVars>>

NextP == \E now \in Todays : CallPredictBottlenecks(now)

SpecP == InitP /\ [][NextP]_vars

\* forecastAdmissions over the admissions of four days, for horizons up to
\* MaxHorizon
MaxHorizon == 8

AdmissionCounts == {0, 1, 4}

Admitted(day, n) == [i \in 1..n |-> CurrentPatient("A", day, <<>>)]

AdmissionHistories ==
  {Admitted(100, a) \o Admitted(101, b) \o Admitted(NoDate, 1) \o Admitted(103, c)
   \o Admitted(104, d) :
     a \in AdmissionCounts, b \in AdmissionCounts, c \in AdmissionCounts, d \in AdmissionCounts}
  \cup {<<>>}

InitF ==
  /\ flowLogs = <<>>
  /\ op = "init"
  /\ filters = NoFilter
  /\ journeys = <<>>
  /\ propagations = <<>>
  /\ deptMetrics = <<>>
  /\ bottlenecks = <<>>
  /\ values = <<>>
  /\ stats = NoStats
  /\ departments = <<>>
  /\ simulation = NoOutcome
  /\ comparison = NoOutcome
  /\ records \in AdmissionHistories
  /\ risk = NoOutcome
  /\ predictions = NoOutcome
  /\ forecasts = NoOutcome
  /\ deptDelays = NoOutcome
  /\ csvRows = <<>>
  /\ cleanResult = NoOutcome
  /\ files = {}
  /\ uploadStatuses = <<>>
  /\ isUploading = FALSE
  /\ uploader = Idle

\* forecastAdmissions(records, days); clockForward is days + 1 when the local
\* clock does not go forward within the horizon
CallForecastAdmissions(days, clockForward) ==
  /\ op = "init"
  /\ forecasts' = [status |-> "ok", days |-> days, clockForward |-> clockForward,
                   items |-> ForecastAdmissions(records, days, clockForward)]
  /\ op' = "forecastAdmissions"
  /\ UNCHANGED <<flowLogs, filters, journeys, propagations, deptMetrics, bottlenecks,
                 values, stats, simVars, riskVars, predictions, deptDelays, ingestVars>>

NextF ==
  \E days \in 0..MaxHorizon, clockForward \in 1..(MaxHorizon + 1) :
    /\ clockForward <= days + 1
    /\ CallForecastAdmissions(days, clockForward)

SpecF == InitF /\ [][NextF]_vars

\* the analyses over stored rows, the delay table and the forecast, from
\* empty inputs on
EmptyHistories == {<<>>, <<CurrentPatient("A", NoDate, <<>>)>>}

InitE ==
  /\ flowLogs = <<>>
  /\ op = "init"
  /\ filters = NoFilter
  /\ journeys = <<>>
  /\ propagations = <<>>
  /\ deptMetrics = <<>>
  /\ bottlenecks = <<>>
  /\ values = <<>>
  /\ stats = NoStats
  /\ departments = <<>>
  /\ simulation = NoOutcome
  /\ comparison = NoOutcome
  /\ records \in EmptyHistories
  /\ risk = NoOutcome
  /\ predictions = NoOutcome
  /\ forecasts = NoOutcome
  /\ deptDelays = NoOutcome
  /\ csvRows = <<>>
  /\ cleanResult = NoOutcome
  /\ files = {}
  /\ uploadStatuses = <<>>
  /\ isUploading = FALSE
  /\ uploader = Idle

\* getDepartmentDelays(filters)
CallGetDepartmentDelays(flt) ==
  /\ op \in {"init", "insert"}
  /\ deptDelays' = [status |-> "ok",
                    items |-> GetDepartmentDelays(GetPatientJourneys(flowLogs, flt))]
  /\ op' = "getDepartmentDelays"
  /\ filters' = flt
  /\ UNCHANGED <<flowLogs, journeys, propagations, deptMetrics, bottlenecks, values,
                 stats, simVars, riskVars, predictions, forecasts, ingestVars>>

\* a row is stored before any analysis has run
InsertFirstRows(log) ==
  /\ op \in {"init", "insert"}
  /\ InsertFlowLog(log)

\* an analysis over the stored rows; a call reads only the rows
CallAnalysis(flt) ==
  /\ op \in {"init", "insert"}
  /\ \/ CallGetPatientJourneys(flt)
     \/ CallGetDelayPropagationMap(flt)
     \/ CallDetectBottlenecks(flt)
     \/ CallGetDepartmentDelays(flt)

NextE ==
  \/ \E log \in LogPool : InsertFirstRows(log)
  \/ \E flt \in Filters : CallAnalysis(flt)
  \/ \E days \in {0, 1, 14} : CallForecastAdmissions(days, days + 1)

SpecE == InitE /\ [][NextE]_vars

\* ------------------------------------------- cleanDepartmentFlowLogs
\* A CSV cell holding a time is kept as the minute it parses to; an empty
\* cell and a text new Date() cannot read are two further values.
EmptyCell == NoTime
UnparseableCell == NoTime - 1

\* String.prototype.trim on the patient ids of the rows
Trim(s) ==
  IF s = " p1" THEN "p1"
  ELSE IF s = " " THEN ""
  ELSE s

\* standardizeDepartmentName: DEPARTMENT_NAME_MAP, else capitalised words
StandardizeDepartmentName(name) ==
  IF name = "er" THEN "Emergency"
  ELSE IF name = "icu" THEN "ICU"
  ELSE IF name = "ward 7" THEN "Ward 7"
  ELSE name

\* parseDateTime: null for an empty or unreadable text, else the instant
ParseDateTime(cell) ==
  IF cell = EmptyCell THEN NoTime
  ELSE IF cell = UnparseableCell THEN NoTime
  ELSE cell

MedianDuration == 120

CsvRow(p, d, entry, exit) ==
  [patient_id |-> p, department_name |-> d, entry_time |-> entry, exit_time |-> exit,
   process_type |-> ""]

\* line 115: a required field is missing
MissingRequiredFields(row) ==
  \/ Trim(row.patient_id) = ""
  \/ StandardizeDepartmentName(row.department_name) = ""
  \/ ParseDateTime(row.entry_time) = NoTime

\* lines 113, 120-124: the exit time, imputed when absent or unreadable
ExitTimeOf(row) ==
  IF row.exit_time # EmptyCell /\ ParseDateTime(row.exit_time) # NoTime
  THEN ParseDateTime(row.exit_time)
  ELSE ParseDateTime(row.entry_time) + MedianDuration

ExitBeforeEntryNever(entry, exit) == FALSE

\* line 126
ExitBeforeEntry(entry, exit) == exit < entry

CleanedLog(row) ==
  [patient_id |-> Trim(row.patient_id),
   department_name |-> StandardizeDepartmentName(row.department_name),
   entry_time |-> ParseDateTime(row.entry_time),
   exit_time |-> ExitTimeOf(row),
   process_type |-> IF row.process_type = "" THEN "General" ELSE row.process_type]

FlowLogError(message, patientId, departmentName) ==
  [message |-> message, patient_id |-> patientId, department_name |-> departmentName]

\* the first loop: the logs kept, in row order
RECURSIVE KeptLogs(_)
KeptLogs(rs) ==
  IF rs = <<>> THEN <<>>
  ELSE IF MissingRequiredFields(Head(rs)) THEN KeptLogs(Tail(rs))
  ELSE IF ExitBeforeEntry(ParseDateTime(Head(rs).entry_time), ExitTimeOf(Head(rs)))
  THEN KeptLogs(Tail(rs))
  ELSE <<CleanedLog(Head(rs))>> \o KeptLogs(Tail(rs))

\* the first loop: the errors pushed, in row order
RECURSIVE RowErrors(_)
RowErrors(rs) ==
  IF rs = <<>> THEN <<>>
  ELSE IF MissingRequiredFields(Head(rs))
  THEN <<FlowLogError("Invalid flow log entry: missing required fields", "", "")>>
       \o RowErrors(Tail(rs))
  ELSE IF ExitBeforeEntry(ParseDateTime(Head(rs).entry_time), ExitTimeOf(Head(rs)))
  THEN <<FlowLogError("Exit time before entry time", Trim(Head(rs).patient_id),
                      StandardizeDepartmentName(Head(rs).department_name))>>
       \o RowErrors(Tail(rs))
  ELSE RowErrors(Tail(rs))

\* the keys of patientLogs in insertion order
RECURSIVE PatientKeys(_, _)
PatientKeys(logs, seen) ==
  IF logs = <<>> THEN <<>>
  ELSE IF Head(logs).patient_id \in seen THEN PatientKeys(Tail(logs), seen)
  ELSE <<Head(logs).patient_id>>
       \o PatientKeys(Tail(logs), seen \cup {Head(logs).patient_id})

\* patientLogs.get(patientId)
RECURSIVE PatientLogs(_, _)
PatientLogs(logs, patientId) ==
  IF logs = <<>> THEN <<>>
  ELSE IF Head(logs).patient_id = patientId
  THEN <<Head(logs)>> \o PatientLogs(Tail(logs), patientId)
  ELSE PatientLogs(Tail(logs), patientId)

\* logs.sort by entry_time: Array.prototype.sort is stable
RECURSIVE InsertByEntry(_, _)
InsertByEntry(sorted, log) ==
  IF sorted = <<>> THEN <<log>>
  ELSE IF Head(sorted).entry_time <= log.entry_time
  THEN <<Head(sorted)>> \o InsertByEntry(Tail(sorted), log)
  ELSE <<log>> \o sorted

RECURSIVE SortByEntry(_)
SortByEntry(logs) ==
  IF logs = <<>> THEN <<>>
  ELSE InsertByEntry(SortByEntry(SubSeq(logs, 1, Len(logs) - 1)), logs[Len(logs)])

\* lines 149-158: some visit starts before the one sorted ahead of it ended
IsValidSequence(sorted) ==
  \A i \in 2..Len(sorted) : ~(sorted[i].entry_time < sorted[i - 1].exit_time)

\* the second loop: the logs pushed to cleaned
RECURSIVE CleanedOfPatients(_, _)
CleanedOfPatients(keys, logs) ==
  IF keys = <<>> THEN <<>>
  ELSE (IF IsValidSequence(SortByEntry(PatientLogs(logs, Head(keys))))
        THEN SortByEntry(PatientLogs(logs, Head(keys)))
        ELSE <<>>)
       \o CleanedOfPatients(Tail(keys), logs)

\* the second loop: the errors pushed
RECURSIVE OverlapErrors(_, _)
OverlapErrors(keys, logs) ==
  IF keys = <<>> THEN <<>>
  ELSE (IF IsValidSequence(SortByEntry(PatientLogs(logs, Head(keys))))
        THEN <<>>
        ELSE <<FlowLogError("Overlapping department visits", Head(keys), "")>>)
       \o OverlapErrors(Tail(keys), logs)

CleanDepartmentFlowLogs(rs) ==
  [status |-> "ok",
   cleaned |-> CleanedOfPatients(PatientKeys(KeptLogs(rs), {}), KeptLogs(rs)),
   errors |-> RowErrors(rs) \o OverlapErrors(PatientKeys(KeptLogs(rs), {}), KeptLogs(rs))]

\* cleaning of an uploaded flow-log file
MaxRows == 4

RowPool ==
  {CsvRow("p1", "er", 0, 60),
   CsvRow("p1", "icu", 30, 90),
   CsvRow("p1", "er", 60, EmptyCell),
   CsvRow(" p1", "ward 7", 60, 60),
   CsvRow("p2", "icu", 100, 50),
   CsvRow("p2", "er", 200, UnparseableCell),
   CsvRow(" ", "er", 0, 10),
   CsvRow("p2", "er", UnparseableCell, 10),
   CsvRow("p2", "", 300, 400)}

\* parseCSV hands over one more row of the file
ParseRow(row) ==
  /\ op \in {"init", "parse"}
  /\ Len(csvRows) < MaxRows
  /\ csvRows' = Append(csvRows, row)
  /\ op' = "parse"
  /\ UNCHANGED <<flowLogs, filters, journeys, propagations, deptMetrics, bottlenecks,
                 values, stats, simVars, riskVars, predVars, cleanResult, files,
                 uploadStatuses, isUploading, uploader>>

CallCleanDepartmentFlowLogs ==
  /\ op \in {"init", "parse"}
  /\ cleanResult' = CleanDepartmentFlowLogs(csvRows)
  /\ op' = "cleanDepartmentFlowLogs"
  /\ UNCHANGED <<flowLogs, filters, journeys, propagations, deptMetrics, bottlenecks,
                 values, stats, simVars, riskVars, predVars, csvRows, files,
                 uploadStatuses, isUploading, uploader>>

NextL ==
  \/ \E row \in RowPool : ParseRow(row)
  \/ CallCleanDepartmentFlowLogs

SpecL == Init /\ [][NextL]_vars

\* ------------------------------------------------------- CSVUploader
\* files is the set of dataset types a file is selected for; what a file
\* holds shows only in how its reading, validation and upload turn out,
\* which the steps below draw.  uploadStatuses maps a type to its status.
UPLOAD_ORDER == <<"patients", "departments", "flowLogs", "doctors", "readmissions">>

DatasetTypes == {UPLOAD_ORDER[i] : i \in DOMAIN UPLOAD_ORDER}

MaxCalls == 1

StatusOf(type) ==
  IF type \in DOMAIN uploadStatuses THEN uploadStatuses[type].status ELSE "none"

\* updateStatus: the defaults, the previous entry and the new fields merged
UpdateStatus(statuses, type, status) ==
  [t \in (DOMAIN statuses) \cup {type} |->
     IF t = type THEN [type |-> type, status |-> status] ELSE statuses[t]]

\* newMap.delete(type)
DeleteStatus(statuses, type) ==
  [t \in (DOMAIN statuses) \ {type} |-> statuses[t]]

\* handleFileSelect, reached from the file input and from a drop; neither is
\* disabled while an upload runs
HandleFileSelect(type) ==
  /\ files' = files \cup {type}
  /\ uploadStatuses' = DeleteStatus(uploadStatuses, type)
  /\ UNCHANGED <<flowLogs, op, filters, journeys, propagations, deptMetrics, bottlenecks,
                 values, stats, simVars, riskVars, predVars, csvRows, cleanResult,
                 isUploading, uploader>>

\* removeFile: its button is rendered only while no upload runs
RemoveFile(type) ==
  /\ ~isUploading
  /\ type \in files
  /\ files' = files \ {type}
  /\ uploadStatuses' = DeleteStatus(uploadStatuses, type)
  /\ UNCHANGED <<flowLogs, op, filters, journeys, propagations, deptMetrics, bottlenecks,
                 values, stats, simVars, riskVars, predVars, csvRows, cleanResult,
                 isUploading, uploader>>

\* the upload button (disabled without a file and while uploading) starts
\* processAndUpload, which keeps the files of the render it was created in
ClickUpload ==
  /\ uploader.pc = "idle"
  /\ files # {}
  /\ ~isUploading
  /\ uploader.calls < MaxCalls
  /\ isUploading' = TRUE
  /\ uploader' = [uploader EXCEPT !.pc = "loop", !.files = files, !.index = 1,
                                  !.started = <<>>, !.trail = <<>>, !.finished = {},
                                  !.calls = @ + 1]
  /\ UNCHANGED <<flowLogs, op, filters, journeys, propagations, deptMetrics, bottlenecks,
                 values, stats, simVars, riskVars, predVars, csvRows, cleanResult, files,
                 uploadStatuses>>

CurrentType == UPLOAD_ORDER[uploader.index]

\* the uploader sets the status of the dataset it is at
SetStatus(status, pc) ==
  /\ uploadStatuses' = UpdateStatus(uploadStatuses, CurrentType, status)
  /\ uploader' = [uploader EXCEPT !.pc = pc, !.trail = Append(@, status)]

AfterErrorBreak(index) == Len(UPLOAD_ORDER) + 1

\* continue, and the end of the catch block: on to the next type
AfterError(index) == index + 1

\* the dataset ends in a terminal status and the loop goes on
EndDataset(status, index) ==
  /\ uploadStatuses' = UpdateStatus(uploadStatuses, CurrentType, status)
  /\ uploader' = [uploader EXCEPT !.pc = "loop", !.trail = Append(@, status),
                                  !.finished = @ \cup {CurrentType}, !.index = index]

\* the head of the for loop, and the two statements after it
LoopHead ==
  /\ uploader.pc = "loop"
  /\ IF uploader.index > Len(UPLOAD_ORDER)
     THEN /\ isUploading' = FALSE
          /\ uploader' = [uploader EXCEPT !.pc = "idle", !.completions = @ + 1]
          /\ UNCHANGED uploadStatuses
     ELSE IF CurrentType \notin uploader.files
     THEN /\ uploader' = [uploader EXCEPT !.index = @ + 1]
          /\ UNCHANGED <<isUploading, uploadStatuses>>
     ELSE /\ uploadStatuses' = UpdateStatus(uploadStatuses, CurrentType, "validating")
          /\ uploader' = [uploader EXCEPT !.pc = "text", !.trail = <<"validating">>,
                                          !.started = Append(@, CurrentType)]
          /\ UNCHANGED isUploading
  /\ UNCHANGED <<flowLogs, op, filters, journeys, propagations, deptMetrics, bottlenecks,
                 values, stats, simVars, riskVars, predVars, csvRows, cleanResult, files>>

\* await file.text() settles; parseCSV and validateSchema run
TextSettles(outcome) ==
  /\ uploader.pc = "text"
  /\ IF outcome = "valid" THEN SetStatus("cleaning", "clean")
     ELSE EndDataset("error", AfterError(uploader.index))
  /\ UNCHANGED <<flowLogs, op, filters, journeys, propagations, deptMetrics, bottlenecks,
                 values, stats, simVars, riskVars, predVars, csvRows, cleanResult, files,
                 isUploading>>

\* the cleaning function has returned
UploadCleaned ==
  /\ uploader.pc = "clean"
  /\ SetStatus("uploading", "upload")
  /\ UNCHANGED <<flowLogs, op, filters, journeys, propagations, deptMetrics, bottlenecks,
                 values, stats, simVars, riskVars, predVars, csvRows, cleanResult, files,
                 isUploading>>

\* await upload...(cleaned) settles
UploadSettles(outcome) ==
  /\ uploader.pc = "upload"
  /\ IF outcome = "success" THEN EndDataset("success", uploader.index + 1)
     ELSE IF outcome = "failure" THEN EndDataset("error", uploader.index + 1)
     ELSE EndDataset("error", AfterError(uploader.index))
  /\ UNCHANGED <<flowLogs, op, filters, journeys, propagations, deptMetrics, bottlenecks,
                 values, stats, simVars, riskVars, predVars, csvRows, cleanResult, files,
                 isUploading>>

InitU ==
  /\ flowLogs = <<>>
  /\ op = "init"
  /\ filters = NoFilter
  /\ journeys = <<>>
  /\ propagations = <<>>
  /\ deptMetrics = <<>>
  /\ bottlenecks = <<>>
  /\ values = <<>>
  /\ stats = NoStats
  /\ departments = <<>>
  /\ simulation = NoOutcome
  /\ comparison = NoOutcome
  /\ records = <<>>
  /\ risk = NoOutcome
  /\ predictions = NoOutcome
  /\ forecasts = NoOutcome
  /\ deptDelays = NoOutcome
  /\ csvRows = <<>>
  /\ cleanResult = NoOutcome
  /\ files = {}
  /\ uploadStatuses = <<>>
  /\ isUploading = FALSE
  /\ uploader = [pc |-> "idle", files |-> {}, index |-> 1, started |-> <<>>,
                 trail |-> <<>>, finished |-> {}, calls |-> 0, completions |-> 0]

\* the steps of a running processAndUpload
ProcessAndUpload ==
  \/ LoopHead
  \/ \E outcome \in {"rejected", "invalid", "valid"} : TextSettles(outcome)
  \/ UploadCleaned
  \/ \E outcome \in {"success", "failure", "rejected"} : UploadSettles(outcome)

NextU ==
  \/ \E type \in DatasetTypes : HandleFileSelect(type)
  \/ \E type \in DatasetTypes : RemoveFile(type)
  \/ ClickUpload
  \/ ProcessAndUpload

\* every await of processAndUpload settles, and the code between two awaits
\* runs to the next one
SpecU == InitU /\ [][NextU]_vars /\ WF_vars(ProcessAndUpload)

\* compareInterventions in flight.  Every simulateIntervention it starts
\* awaits three queries whose answers it uses: the flow logs (line 48), the
\* department row for the baseline (line 53) and the department row for the
\* projection (line 235); uploads and clearAllData of another action take
\* effect between them.  The rows getDepartmentDelays reads (line 49) do not
\* reach the baseline, see DepartmentDelays.  SpecSim above has the calls
\* during which nothing is written.
ComparedInFlight ==
  {<<Intervention("staff", "A", 2), Intervention("beds", "A", 2)>>,
   <<Intervention("beds", "A", 4)>>}

MaxUploads == 2

UploadPool == {Log("p1", "A", 0, 4), Log("p2", "A", 0, 8)}

SimulationTask(intervention) ==
  [intervention |-> intervention, pc |-> "journeys", logs |-> <<>>,
   baselineRow |-> NoRow, currentRow |-> NoRow]

\* compareInterventions(interventions): Promise.all starts every simulation
StartCompareInterventions(interventions) ==
  /\ simulation = NoOutcome
  /\ comparison = NoOutcome
  /\ simulation' = [status |-> "running",
                    tasks |-> [i \in DOMAIN interventions |-> SimulationTask(interventions[i])]]
  /\ op' = "compareInterventions"
  /\ filters' = NoFilter
  /\ UNCHANGED <<flowLogs, journeys, propagations, deptMetrics, bottlenecks, values,
                 stats, departments, comparison, riskVars, predVars, ingestVars>>

\* the answer of the query a simulation is waiting for
AnswerOfQuery(task) ==
  IF task.pc = "journeys" THEN [task EXCEPT !.logs = flowLogs, !.pc = "dept"]
  ELSE IF task.pc = "dept"
  THEN [task EXCEPT !.baselineRow = DepartmentRow(departments, task.intervention.departmentName),
                    !.pc = "current"]
  ELSE [task EXCEPT !.currentRow = DepartmentRow(departments, task.intervention.departmentName),
                    !.pc = "done"]

QueryReturns(i) ==
  /\ simulation.status = "running"
  /\ i \in DOMAIN simulation.tasks
  /\ simulation.tasks[i].pc # "done"
  /\ simulation' = [simulation EXCEPT !.tasks[i] = AnswerOfQuery(simulation.tasks[i])]
  /\ UNCHANGED <<flowLogs, op, filters, journeys, propagations, deptMetrics, bottlenecks,
                 values, stats, departments, comparison, riskVars, predVars, ingestVars>>

\* the simulation a task resolves to
SimulationOfTask(task) ==
  SimulationOfBaseline(task.intervention,
                       BaselineOfJourneys(GetPatientJourneys(task.logs, NoFilter),
                                          task.intervention.departmentName,
                                          task.baselineRow),
                       task.currentRow)

\* every simulation has resolved: sort, recommend, return
CompareInterventionsReturns ==
  /\ simulation.status = "running"
  /\ \A i \in DOMAIN simulation.tasks : simulation.tasks[i].pc = "done"
  /\ comparison' = Comparison(SortSimulations(
                     [i \in DOMAIN simulation.tasks |-> SimulationOfTask(simulation.tasks[i])]))
  /\ simulation' = [simulation EXCEPT !.status = "resolved"]
  /\ UNCHANGED <<flowLogs, op, filters, journeys, propagations, deptMetrics, bottlenecks,
                 values, stats, departments, riskVars, predVars, ingestVars>>

\* another action uploads a stay, upserts the department rows, or runs the
\* two deletes of clearAllData
UploadStay(log) ==
  /\ Len(flowLogs) < MaxUploads
  /\ flowLogs' = Append(flowLogs, log)
  /\ UNCHANGED <<op, filters, journeys, propagations, deptMetrics, bottlenecks, values,
                 stats, departments, simulation, comparison, riskVars, predVars,
                 ingestVars>>

UploadDepartments(table) ==
  /\ table # <<>>
  /\ departments' = table
  /\ UNCHANGED <<flowLogs, op, filters, journeys, propagations, deptMetrics, bottlenecks,
                 values, stats, simulation, comparison, riskVars, predVars, ingestVars>>

ClearFlowLogs ==
  /\ flowLogs # <<>>
  /\ flowLogs' = <<>>
  /\ UNCHANGED <<op, filters, journeys, propagations, deptMetrics, bottlenecks, values,
                 stats, departments, simulation, comparison, riskVars, predVars,
                 ingestVars>>

ClearDepartments ==
  /\ departments # <<>>
  /\ departments' = <<>>
  /\ UNCHANGED <<flowLogs, op, filters, journeys, propagations, deptMetrics, bottlenecks,
                 values, stats, simulation, comparison, riskVars, predVars, ingestVars>>

NextC ==
  \/ \E is \in ComparedInFlight : StartCompareInterventions(is)
  \/ \E i \in 1..MaxInterventions : QueryReturns(i)
  \/ CompareInterventionsReturns
  \/ \E log \in UploadPool : UploadStay(log)
  \/ \E table \in DeptTables : UploadDepartments(table)
  \/ ClearFlowLogs
  \/ ClearDepartments

SpecC == InitSim /\ [][NextC]_vars

\* ------------------------------------------------------------ properties
RECURSIVE SumFn(_, _)
SumFn(f, S) ==
  IF S = {} THEN 0
  ELSE LET x == CHOOSE y \in S : TRUE IN f[x] + SumFn(f, S \ {x})

Range(q) == {q[i] : i \in DOMAIN q}

\* a row the reconstructor may use: all three fields present, exit not before entry
ValidLog(log) ==
  /\ log.patient # NoId
  /\ log.entry # NoTime
  /\ log.exit # NoTime
  /\ log.exit >= log.entry

PassesFilter(log, flt) ==
  flt = NoFilter \/ (IF log.dept = NoId THEN "Unknown" ELSE log.dept) = flt

\* the rows of patient p that are valid and pass the filter, in input order
UsableLogs(p, flt) ==
  LET Usable(log) == log.patient = p /\ ValidLog(log) /\ PassesFilter(log, flt)
  IN  SelectSeq(flowLogs, Usable)

\* C4: the total duration of every returned journey is the sum of the
\* durations of exactly the stages the journey contains.
C4_TotalDurationIsSumOfStages ==
  op = "getPatientJourneys" =>
    \A i \in DOMAIN journeys :
      journeys[i].totalDuration =
        SumFn([k \in DOMAIN journeys[i].stages |-> journeys[i].stages[k].duration],
              DOMAIN journeys[i].stages)

\* a journey of two stages of different positive durations, one row of the patient dropped
C4_Witness ==
  /\ op = "getPatientJourneys"
  /\ \E i \in DOMAIN journeys :
       /\ Len(journeys[i].stages) = 2
       /\ journeys[i].stages[1].duration > 0
       /\ journeys[i].stages[2].duration > journeys[i].stages[1].duration
       /\ journeys[i].totalDuration > journeys[i].stages[2].duration
       /\ \E k \in DOMAIN flowLogs :
            flowLogs[k].patient = journeys[i].patientId /\ ~ValidLog(flowLogs[k])

\* C5: rows with exit before entry or with a missing patient id, entry or
\* exit time are dropped; every stage has duration = exit - entry >= 0; the
\* other usable rows of the same patient are all kept, one stage each.
C5_InvalidLogsDropped ==
  op = "getPatientJourneys" =>
    /\ \A i \in DOMAIN journeys :
         /\ journeys[i].patientId # NoId
         /\ Len(journeys[i].stages) = Len(UsableLogs(journeys[i].patientId, filters))
         /\ \A k \in DOMAIN journeys[i].stages :
              LET s == journeys[i].stages[k]
              IN  /\ s.duration >= 0
                  /\ s.duration = s.exitTime - s.entryTime
                  /\ \E m \in DOMAIN flowLogs :
                       /\ flowLogs[m].patient = journeys[i].patientId
                       /\ ValidLog(flowLogs[m])
                       /\ flowLogs[m].entry = s.entryTime
                       /\ flowLogs[m].exit = s.exitTime
    /\ \A m \in DOMAIN flowLogs :
         (ValidLog(flowLogs[m]) /\ PassesFilter(flowLogs[m], filters)) =>
           \E i \in DOMAIN journeys :
             /\ journeys[i].patientId = flowLogs[m].patient
             /\ \A j \in DOMAIN journeys : journeys[j].patientId = journeys[i].patientId => j = i

\* a patient with a negative-duration row and a valid row: only the valid one is a stage
C5_Witness ==
  /\ op = "getPatientJourneys"
  /\ \E m, n \in DOMAIN flowLogs :
       /\ flowLogs[m].patient = flowLogs[n].patient
       /\ flowLogs[m].patient # NoId
       /\ flowLogs[m].entry # NoTime /\ flowLogs[m].exit # NoTime
       /\ flowLogs[m].exit < flowLogs[m].entry
       /\ m < n
       /\ ValidLog(flowLogs[n])
       /\ \E i \in DOMAIN journeys :
            /\ journeys[i].patientId = flowLogs[n].patient
            /\ Len(journeys[i].stages) = 1
            /\ journeys[i].stages[1].exitTime = flowLogs[n].exit

\* C6: stages are in ascending entry-time order, and stages with equal entry
\* times keep the relative order their rows had in the input.
C6_StagesSortedStable ==
  op = "getPatientJourneys" =>
    \A i \in DOMAIN journeys :
      LET st == journeys[i].stages
          logs == UsableLogs(journeys[i].patientId, filters)
      IN  /\ \A a, b \in DOMAIN st : a < b => st[a].entryTime <= st[b].entryTime
          /\ \A t \in {st[a].entryTime : a \in DOMAIN st} :
               LET AtT(s) == s.entryTime = t
                   LogAtT(log) == log.entry = t
                   same == SelectSeq(st, AtT)
                   rows == SelectSeq(logs, LogAtT)
               IN  /\ Len(same) = Len(rows)
                   /\ \A k \in DOMAIN same :
                        /\ same[k].exitTime = rows[k].exit
                        /\ same[k].department =
                             (IF rows[k].dept = NoId THEN "Unknown" ELSE rows[k].dept)

\* rows arrive out of time order and two distinguishable rows share an entry time
C6_Witness ==
  /\ op = "getPatientJourneys"
  /\ \E i \in DOMAIN journeys :
       LET st == journeys[i].stages
           logs == UsableLogs(journeys[i].patientId, filters)
       IN  /\ Len(st) = 3
           /\ st[1].entryTime = st[2].entryTime
           /\ st[1].exitTime > st[2].exitTime
           /\ st[3].entryTime > st[2].entryTime
           /\ logs[1].entry > logs[2].entry

\* the waits of the consecutive stage pairs from src to tgt that exceed 5 minutes
CountedPairs(js, src, tgt) ==
  {<<j, i>> \in (DOMAIN js) \X (DOMAIN flowLogs) :
     /\ i + 1 <= Len(js[j].stages)
     /\ js[j].stages[i].department = src
     /\ js[j].stages[i + 1].department = tgt
     /\ js[j].stages[i + 1].entryTime - js[j].stages[i].exitTime > 5}

PairWait(js, pr) == js[pr[1]].stages[pr[2] + 1].entryTime - js[pr[1]].stages[pr[2]].exitTime

TotalCountedWait(js, src, tgt) ==
  LET prs == CountedPairs(js, src, tgt)
  IN  SumFn([pr \in prs |-> PairWait(js, pr)], prs)

UnitNames == Departments \cup {"Unknown"}

EdgesOf(src, tgt) ==
  {k \in DOMAIN propagations :
     propagations[k].sourceDepartment = src /\ propagations[k].targetDepartment = tgt}

\* C7: a consecutive stage pair counts toward its (source, target) edge iff
\* its wait is strictly above 5 minutes; patientsAffected is the number of
\* counted pairs and a pair of units with no counted wait has no edge.
C7_OnlyWaitsAboveFiveCounted ==
  op = "getDelayPropagationMap" =>
    LET js == GetPatientJourneys(flowLogs, filters)
    IN  \A src, tgt \in UnitNames :
          LET n == Cardinality(CountedPairs(js, src, tgt))
          IN  IF n = 0 THEN EdgesOf(src, tgt) = {}
              ELSE /\ Cardinality(EdgesOf(src, tgt)) = 1
                   /\ \A k \in EdgesOf(src, tgt) : propagations[k].patientsAffected = n

\* one journey with a 6-minute wait (counted) followed by a 5-minute wait (no edge)
C7_Witness ==
  /\ op = "getDelayPropagationMap"
  /\ LET js == GetPatientJourneys(flowLogs, filters)
     IN  \E j \in DOMAIN js :
           /\ Len(js[j].stages) = 3
           /\ js[j].stages[2].entryTime - js[j].stages[1].exitTime = 6
           /\ js[j].stages[3].entryTime - js[j].stages[2].exitTime = 5
           /\ Len(propagations) = 1
           /\ propagations[1].sourceDepartment = js[j].stages[1].department
           /\ propagations[1].patientsAffected = 1

\* C8 as stated: the reported strength is exactly min(100, average wait / 60 * 100).
C8_StrengthIsExactQuotient ==
  op = "getDelayPropagationMap" =>
    LET js == GetPatientJourneys(flowLogs, filters)
    IN  \A k \in DOMAIN propagations :
          LET e == propagations[k]
              total == TotalCountedWait(js, e.sourceDepartment, e.targetDepartment)
              n == Cardinality(CountedPairs(js, e.sourceDepartment, e.targetDepartment))
          IN  e.propagationStrength * 60 * n = 1000 * Min(total, 60 * n)

\* C8 (amended): the reported strength is min(100, average counted wait / 60
\* * 100) rounded to one decimal (half up), the average being total counted
\* wait over the count of counted pairs; it lies within 0..100 and is 100
\* whenever the average wait is 60 minutes or more.  Strengths are in tenths.
C8_StrengthIsRoundedClampedQuotient ==
  op = "getDelayPropagationMap" =>
    LET js == GetPatientJourneys(flowLogs, filters)
    IN  \A k \in DOMAIN propagations :
          LET e == propagations[k]
              total == TotalCountedWait(js, e.sourceDepartment, e.targetDepartment)
              n == Cardinality(CountedPairs(js, e.sourceDepartment, e.targetDepartment))
              exact == 1000 * Min(total, 60 * n)
          IN  /\ n > 0
              /\ 2 * e.propagationStrength * 60 * n - 60 * n <= 2 * exact
              /\ 2 * exact < 2 * e.propagationStrength * 60 * n + 60 * n
              /\ e.propagationStrength >= 0
              /\ e.propagationStrength <= 1000
              /\ (total >= 60 * n => e.propagationStrength = 1000)

\* an edge whose strength needed rounding and an edge saturated by a wait above 60 minutes
C8_Witness ==
  /\ op = "getDelayPropagationMap"
  /\ LET js == GetPatientJourneys(flowLogs, filters)
     IN  /\ \E k \in DOMAIN propagations :
               LET e == propagations[k]
               IN  /\ TotalCountedWait(js, e.sourceDepartment, e.targetDepartment) = 7
                   /\ e.patientsAffected = 1
                   /\ e.propagationStrength = 117
         /\ \E k \in DOMAIN propagations :
               LET e == propagations[k]
               IN  /\ TotalCountedWait(js, e.sourceDepartment, e.targetDepartment) = 60
                   /\ e.patientsAffected = 1
                   /\ e.propagationStrength = 1000

\* ---- detectBottlenecks
ReportsOf(name) == {i \in DOMAIN bottlenecks : bottlenecks[i].departmentName = name}

\* the three conditions of the classification, on the unrounded metrics
IsModerate(m) ==
  /\ m.volumePercentile[1] >= 60 * m.volumePercentile[2]
  /\ m.volumePercentile[1] < 100 * m.volumePercentile[2]

IsHigh(m) == m.volumePercentile[1] >= 100 * m.volumePercentile[2]

InvisibleCondition(m) ==
  /\ IsModerate(m)
  /\ ~m.dpsNaN
  /\ m.delayPropagationScore[1] > 30 * m.delayPropagationScore[2]

ObviousCondition(m) == IsHigh(m) /\ m.timeDeviation[1] > 50 * m.timeDeviation[2]

\* varianceRatio > 1.3 and congestionIndicator > 0.8, on the squares
EmergingCondition(m) ==
  /\ 100 * m.varianceRatioSq[1] > 169 * m.varianceRatioSq[2]
  /\ 25 * m.congestionSq[1] > 16 * m.congestionSq[2]

\* C1: a unit with at least 3 samples is reported as invisible if moderate
\* load and delay propagation > 30; else as obvious if high load and time
\* deviation > 50; else as emerging if variance ratio > 1.3 and congestion
\* > 0.8; else it is absent.  Every report carries exactly one of the three
\* types and belongs to a unit of the analysis.
C1_OrderedClassification ==
  op = "detectBottlenecks" =>
    /\ \A k \in DOMAIN deptMetrics :
         LET m == deptMetrics[k]
             expected ==
               IF InvisibleCondition(m) THEN "invisible"
               ELSE IF ObviousCondition(m) THEN "obvious"
               ELSE IF EmergingCondition(m) THEN "emerging"
               ELSE "absent"
         IN  m.samples >= 3 =>
               IF expected = "absent" THEN ReportsOf(m.name) = {}
               ELSE /\ Cardinality(ReportsOf(m.name)) = 1
                    /\ \A i \in ReportsOf(m.name) : bottlenecks[i].bottleneckType = expected
    /\ \A i \in DOMAIN bottlenecks :
         /\ bottlenecks[i].bottleneckType \in {"invisible", "obvious", "emerging"}
         /\ \E k \in DOMAIN deptMetrics : deptMetrics[k].name = bottlenecks[i].departmentName

\* a unit meeting both the invisible and the emerging condition is reported
\* as invisible, next to a unit with enough samples that meets none
C1_Witness ==
  /\ op = "detectBottlenecks"
  /\ \E k, n \in DOMAIN deptMetrics :
       /\ deptMetrics[k].samples >= 3
       /\ InvisibleCondition(deptMetrics[k])
       /\ EmergingCondition(deptMetrics[k])
       /\ \E i \in DOMAIN bottlenecks :
            /\ bottlenecks[i].departmentName = deptMetrics[k].name
            /\ bottlenecks[i].bottleneckType = "invisible"
       /\ deptMetrics[n].samples >= 3
       /\ ReportsOf(deptMetrics[n].name) = {}

\* C2: the ranks of the returned list are 1..N in list order, and a record
\* with a smaller rank has an overall impact score at least the other's.
C2_DenseRanksDescendingScore ==
  op = "detectBottlenecks" =>
    /\ \A i \in DOMAIN bottlenecks : bottlenecks[i].rank = i
    /\ \A i, j \in DOMAIN bottlenecks :
         bottlenecks[i].rank < bottlenecks[j].rank =>
           /\ ~bottlenecks[i].scoreIsNaN
           /\ ~bottlenecks[j].scoreIsNaN
           /\ bottlenecks[i].overallImpactScore >= bottlenecks[j].overallImpactScore

\* two reports of different scores, the higher one from the unit analysed second
C2_Witness ==
  /\ op = "detectBottlenecks"
  /\ Len(bottlenecks) = 2
  /\ Len(deptMetrics) = 2
  /\ bottlenecks[1].departmentName = deptMetrics[2].name
  /\ bottlenecks[1].overallImpactScore > bottlenecks[2].overallImpactScore
  /\ bottlenecks[1].rank = 1
  /\ bottlenecks[2].rank = 2

\* C3: a unit with fewer than 3 samples is never reported; a unit with
\* exactly 3 samples is reported whenever it meets one of the conditions.
C3_ThreeSamplesNeeded ==
  op = "detectBottlenecks" =>
    \A k \in DOMAIN deptMetrics :
      LET m == deptMetrics[k]
      IN  /\ m.samples < 3 => ReportsOf(m.name) = {}
          /\ (/\ m.samples = 3
              /\ (InvisibleCondition(m) \/ ObviousCondition(m) \/ EmergingCondition(m)))
               => ReportsOf(m.name) # {}

\* a unit with 2 samples that meets a condition is left out while a unit
\* with exactly 3 samples is reported
C3_Witness ==
  /\ op = "detectBottlenecks"
  /\ \E k, n \in DOMAIN deptMetrics :
       /\ deptMetrics[k].samples = 2
       /\ (\/ InvisibleCondition(deptMetrics[k])
           \/ ObviousCondition(deptMetrics[k])
           \/ EmergingCondition(deptMetrics[k]))
       /\ ReportsOf(deptMetrics[k].name) = {}
       /\ deptMetrics[n].samples = 3
       /\ ReportsOf(deptMetrics[n].name) # {}

MeanAbove(m) == m.actualTime[1] * m.globalMean[2] > m.globalMean[1] * m.actualTime[2]

MeanBelow(m) == m.actualTime[1] * m.globalMean[2] < m.globalMean[1] * m.actualTime[2]

\* |unit mean - global mean| >= 0.005 global standard deviations (> if strict)
AtLeastHalfHundredth(m, strict) ==
  LET diff == RatSub(m.actualTime, m.globalMean)
      lower == FracLeq(m.globalVariance[1], 40000 * m.globalVariance[2],
                       diff[1] * diff[1], diff[2] * diff[2])
      upper == FracLeq(diff[1] * diff[1], diff[2] * diff[2],
                       m.globalVariance[1], 40000 * m.globalVariance[2])
  IN  IF strict THEN ~upper ELSE lower

\* C10 as stated: the reported z-score is positive when the unit mean is
\* above the global mean, negative when below, zero when equal or when the
\* global standard deviation is 0.
C10_ReportedZScoreSignMatches ==
  op = "detectBottlenecks" =>
    \A k \in DOMAIN deptMetrics : \A i \in ReportsOf(deptMetrics[k].name) :
      LET m == deptMetrics[k]
          z == bottlenecks[i].zScore
      IN  IF m.globalVariance[1] = 0 THEN z = 0
          ELSE /\ MeanAbove(m) => z > 0
               /\ MeanBelow(m) => z < 0
               /\ (~MeanAbove(m) /\ ~MeanBelow(m)) => z = 0

\* C10 (amended): the reported z-score is the z-score rounded to two
\* decimals, so it never has the opposite sign: it is positive iff the unit
\* mean is at least 0.005 global standard deviations above the global mean,
\* negative iff it is more than 0.005 below, and zero otherwise, in
\* particular when the means are equal or the global standard deviation is 0.
C10_ReportedZScoreSignUpToRounding ==
  op = "detectBottlenecks" =>
    \A k \in DOMAIN deptMetrics : \A i \in ReportsOf(deptMetrics[k].name) :
      LET m == deptMetrics[k]
          z == bottlenecks[i].zScore
      IN  IF m.globalVariance[1] = 0 THEN z = 0
          ELSE /\ z > 0 <=> (MeanAbove(m) /\ AtLeastHalfHundredth(m, FALSE))
               /\ z < 0 <=> (MeanBelow(m) /\ AtLeastHalfHundredth(m, TRUE))
               /\ (~MeanAbove(m) /\ ~MeanBelow(m)) => z = 0

\* a reported unit whose mean is above the global mean by less than 0.005
\* standard deviations: its reported z-score is 0
C10_Witness ==
  /\ op = "detectBottlenecks"
  /\ \E k \in DOMAIN deptMetrics : \E i \in ReportsOf(deptMetrics[k].name) :
       /\ deptMetrics[k].globalVariance[1] > 0
       /\ MeanAbove(deptMetrics[k])
       /\ bottlenecks[i].zScore = 0

\* the sample at index k (from 0) of the samples in ascending order
OrderStatistic(vs, k) ==
  CHOOSE x \in Range(vs) :
    /\ Cardinality({i \in DOMAIN vs : vs[i] < x}) <= k
    /\ k < Cardinality({i \in DOMAIN vs : vs[i] <= x})

\* C9: for n >= 1 samples median, Q1, Q3 are the order statistics at
\* floor(n/2), floor(n/4), floor(3n/4), IQR = Q3 - Q1, mean = sum / n and
\* variance = population variance, whatever the input order; [30, 90, 150]
\* in any order gives 90, 90, 30, 150, 120 and variance 2400; no sample
\* gives all zeros.
C9_OrderStatisticsAndPopulationVariance ==
  op = "calculateStatistics" =>
    LET n == Len(values)
        total == SumFn(values, DOMAIN values)
        squares == SumFn([i \in DOMAIN values |-> values[i] * values[i]], DOMAIN values)
    IN  /\ n = 0 =>
             /\ stats.mean = <<0, 1>> /\ stats.variance = <<0, 1>>
             /\ stats.median = 0 /\ stats.q1 = 0 /\ stats.q3 = 0 /\ stats.iqr = 0
        /\ n > 0 =>
             /\ stats.median = OrderStatistic(values, n \div 2)
             /\ stats.q1 = OrderStatistic(values, n \div 4)
             /\ stats.q3 = OrderStatistic(values, (3 * n) \div 4)
             /\ stats.iqr = stats.q3 - stats.q1
             /\ stats.mean[2] > 0
             /\ stats.mean[1] * n = total * stats.mean[2]
             /\ stats.variance[2] > 0
             /\ stats.variance[1] * n * n = (n * squares - total * total) * stats.variance[2]
        /\ (n = 3 /\ Range(values) = {30, 90, 150}) =>
             stats = [mean |-> <<90, 1>>, median |-> 90, q1 |-> 30, q3 |-> 150,
                      iqr |-> 120, variance |-> <<2400, 1>>]

\* the Radiology samples given out of order
C9_Witness ==
  /\ op = "calculateStatistics"
  /\ values = <<150, 30, 90>>
  /\ stats.median = 90
  /\ stats.variance = <<2400, 1>>

\* -------------------------------------------- zero denominators (C11)
\* C11: for every eligible unit of detectBottlenecks each ratio with a zero
\* denominator is 0: the z-score when the global standard deviation is 0, the
\* IQR position when the global IQR is 0, the time deviation when the unit
\* median is 0, the congestion indicator when the unit mean is 0 and the
\* delay-propagation score when the unit mean (actual time) is 0, also with
\* positive downstream waits; and the delay-propagation score, the only
\* unguarded quotient, is never NaN.
C11_ZeroDenominatorsYieldZero ==
  op = "detectBottlenecks" =>
    \A i \in DOMAIN deptMetrics :
      LET m == deptMetrics[i]
      IN  HasEnoughSamples(m) =>
            /\ (m.globalVariance = Zero => m.zSign = 0 /\ m.zSq = Zero)
            /\ (m.globalIqr = 0 => m.iqrPosition = Zero)
            /\ (m.expectedTime = 0 => m.timeDeviation = Zero)
            /\ (m.actualTime = Zero => m.congestionSq = Zero)
            /\ (m.actualTime = Zero => m.delayPropagationScore = Zero)
            /\ ~m.dpsNaN

\* the four guarded quotients alone do yield 0 on a zero denominator
C11_GuardedRatiosYieldZero ==
  op = "detectBottlenecks" =>
    \A i \in DOMAIN deptMetrics :
      LET m == deptMetrics[i]
      IN  HasEnoughSamples(m) =>
            /\ (m.globalVariance = Zero => m.zSign = 0 /\ m.zSq = Zero)
            /\ (m.globalIqr = 0 => m.iqrPosition = Zero)
            /\ (m.expectedTime = 0 => m.timeDeviation = Zero)
            /\ (m.actualTime = Zero => m.congestionSq = Zero)

\* an eligible unit whose stays all last 0 minutes, followed by positive
\* waits, is reported as invisible with a delay-propagation score of 100
C11_Witness ==
  /\ op = "detectBottlenecks"
  /\ \E i \in DOMAIN deptMetrics :
       LET m == deptMetrics[i]
       IN  /\ HasEnoughSamples(m)
           /\ m.actualTime = Zero
           /\ m.avgDownstreamDelay[1] > 0
           /\ m.delayPropagationScore = RatOf(100)
           /\ \E j \in DOMAIN bottlenecks :
                /\ bottlenecks[j].departmentName = m.name
                /\ bottlenecks[j].bottleneckType = "invisible"

\* an eligible unit whose stays all last 0 minutes and that has no
\* downstream wait has NaN as its delay-propagation score
C11_WitnessNaN ==
  /\ op = "detectBottlenecks"
  /\ \E i \in DOMAIN deptMetrics :
       LET m == deptMetrics[i]
       IN  HasEnoughSamples(m) /\ m.actualTime = Zero /\ m.dpsNaN

\* ------------------------------------------------ simulation (C12 - C17)
KnownTypes == {"staff", "beds", "processing_time"}

\* every number of a metrics record is finite
FiniteMetrics(m) ==
  /\ IsFiniteNumber(m.averageLOS)
  /\ IsFiniteNumber(m.bedUtilization)
  /\ IsFiniteNumber(m.avgProcessingTime)
  /\ IsFiniteNumber(m.readmissionRisk)
  /\ IsFiniteNumber(m.throughput)

FiniteImprovements(im) ==
  /\ IsFiniteNumber(im.losReduction)
  /\ IsFiniteNumber(im.losReductionPercent)
  /\ IsFiniteNumber(im.bedUtilizationChange)
  /\ IsFiniteNumber(im.readmissionRiskReduction)
  /\ IsFiniteNumber(im.patientsImpacted)

FiniteResult(s) ==
  /\ FiniteMetrics(s.projected)
  /\ FiniteImprovements(s.improvements)
  /\ IsFiniteNumber(s.costBenefit.impactScore)
  /\ IsFiniteNumber(s.costBenefit.roi)

\* C12: simulateIntervention on a unit whose baseline average processing time
\* is 0, for each of the types staff, beds and processing_time, returns
\* projected metrics, improvements, impact score and ROI that are all finite
\* numbers.
C12_ZeroBaselineStaysFinite ==
  (/\ op = "simulateIntervention"
   /\ simulation.intervention.type \in KnownTypes
   /\ simulation.baseline.avgProcessingTime = XInt(0))
  => FiniteResult(simulation)

\* the part that holds: adding beds never divides by the baseline
C12_BedsStayFinite ==
  (/\ op = "simulateIntervention"
   /\ simulation.intervention.type = "beds"
   /\ simulation.baseline.avgProcessingTime = XInt(0))
  => FiniteResult(simulation)

\* a staff increase on a unit without stages: the readmission risk, the
\* impact score and the ROI are NaN
C12_Witness ==
  /\ op = "simulateIntervention"
  /\ simulation.intervention.type = "staff"
  /\ simulation.intervention.value > 0
  /\ simulation.baseline.throughput = XInt(0)
  /\ simulation.baseline.avgProcessingTime = XInt(0)
  /\ simulation.projected.readmissionRisk = NaN
  /\ simulation.costBenefit.impactScore = NaN
  /\ simulation.costBenefit.roi = NaN

\* a processing-time reduction on a unit without stages: length of stay, bed
\* utilization and throughput are NaN
C12_WitnessProcessingTime ==
  /\ op = "simulateIntervention"
  /\ simulation.intervention.type = "processing_time"
  /\ simulation.intervention.value > 0
  /\ simulation.baseline.avgProcessingTime = XInt(0)
  /\ simulation.projected.averageLOS = NaN
  /\ simulation.projected.bedUtilization = NaN
  /\ simulation.projected.throughput = NaN

\* C13: simulateIntervention with an intervention whose type is none of
\* staff, beds, processing_time fails and returns no SimulationResult, and
\* compareInterventions containing such an intervention fails as well.
C13_UnknownTypeFails ==
  /\ (op = "simulateIntervention" /\ simulation.intervention.type \notin KnownTypes)
       => simulation.status = "error"
  /\ (op = "compareInterventions"
      /\ \E i \in DOMAIN comparison.simulations :
           comparison.simulations[i].intervention.type \notin KnownTypes)
       => comparison.status = "error"

\* an unknown type is answered with a result whose projection is the
\* baseline and whose cost is 0
C13_Witness ==
  /\ op = "simulateIntervention"
  /\ simulation.intervention.type \notin KnownTypes
  /\ simulation.status = "ok"
  /\ simulation.projected = simulation.baseline
  /\ simulation.costBenefit.estimatedCost = Zero
  /\ simulation.baseline.throughput # XInt(0)

\* and it is ranked in a comparison
C13_WitnessCompared ==
  /\ op = "compareInterventions"
  /\ comparison.status = "ok"
  /\ Len(comparison.simulations) = 2
  /\ comparison.simulations[2].intervention.type \notin KnownTypes

\* C14: for every type, magnitude and baseline the projected metrics satisfy
\* average LOS >= 0.1 day, average processing time >= 5 minutes,
\* 0 <= bed utilization <= 100 and readmission risk >= 0.
C14_ProjectedWithinFloors ==
  (op = "simulateIntervention" /\ simulation.intervention.type \in KnownTypes)
  => LET p == simulation.projected
     IN  /\ ~XLt(p.averageLOS, XNum(<<1, 10>>)) /\ p.averageLOS # NaN
         /\ ~XLt(p.avgProcessingTime, XInt(5)) /\ p.avgProcessingTime # NaN
         /\ ~XLt(p.bedUtilization, XInt(0)) /\ ~XLt(XInt(100), p.bedUtilization)
         /\ p.bedUtilization # NaN
         /\ ~XLt(p.readmissionRisk, XInt(0)) /\ p.readmissionRisk # NaN

\* what holds whenever the projection is finite: every floor but the one on
\* the processing time of staff and beds interventions
C14_FloorsOfFiniteProjections ==
  (/\ op = "simulateIntervention"
   /\ simulation.intervention.type \in KnownTypes
   /\ FiniteMetrics(simulation.projected))
  => LET p == simulation.projected
     IN  /\ ~XLt(p.averageLOS, XNum(<<1, 10>>))
         /\ ~XLt(p.bedUtilization, XInt(0)) /\ ~XLt(XInt(100), p.bedUtilization)
         /\ ~XLt(p.readmissionRisk, XInt(0))
         /\ simulation.intervention.type = "processing_time"
              => ~XLt(p.avgProcessingTime, XInt(5))

\* more staff for a unit with a finite baseline of 8 minutes projects a
\* processing time below 5 minutes
C14_Witness ==
  /\ op = "simulateIntervention"
  /\ simulation.intervention.type = "staff"
  /\ simulation.baseline.avgProcessingTime = XInt(8)
  /\ FiniteMetrics(simulation.projected)
  /\ XLt(simulation.projected.avgProcessingTime, XInt(5))

\* C15: the estimated cost is the unit price times the magnitude: 75,000 per
\* added staff member, 50,000 per added bed and 10,000 per 10-minute unit of
\* processing-time reduction (30 minutes cost 30,000).
C15_CostIsUnitPriceTimesMagnitude ==
  (op = "simulateIntervention" /\ simulation.intervention.type \in KnownTypes)
  => LET i == simulation.intervention
         cost == simulation.costBenefit.estimatedCost
     IN  /\ i.type = "staff" => cost = RatOf(75000 * i.value)
         /\ i.type = "beds" => cost = RatOf(50000 * i.value)
         /\ i.type = "processing_time" => cost = Rat(10000 * i.value, 10)

\* staff and beds are priced as stated
C15_StaffAndBedsCost ==
  (op = "simulateIntervention" /\ simulation.intervention.type \in {"staff", "beds"})
  => LET i == simulation.intervention
         cost == simulation.costBenefit.estimatedCost
     IN  /\ i.type = "staff" => cost = RatOf(75000 * i.value)
         /\ i.type = "beds" => cost = RatOf(50000 * i.value)

\* a 30-minute reduction is priced at 300,000
C15_Witness ==
  /\ op = "simulateIntervention"
  /\ simulation.intervention.type = "processing_time"
  /\ simulation.intervention.value = 30
  /\ simulation.costBenefit.estimatedCost = RatOf(300000)

\* 0.4 * LOS-reduction% + 0.3 * |bed-utilization change| + 0.3 *
\* readmission-risk reduction, as a fraction
WeightedImpact(im) ==
  RatAdd(RatAdd(RatMul(im.losReductionPercent.v, <<2, 5>>),
                RatMul(RatAbs(im.bedUtilizationChange.v), <<3, 10>>)),
         RatMul(im.readmissionRiskReduction.v, <<3, 10>>))

FiniteImpactInputs(im) ==
  /\ IsFiniteNumber(im.losReductionPercent)
  /\ IsFiniteNumber(im.bedUtilizationChange)
  /\ IsFiniteNumber(im.readmissionRiskReduction)

\* |x - y| <= tolerance on fractions
Within(x, y, tolerance) == RatLeq(RatAbs(RatSub(x, y)), tolerance)

HasCostBenefit == op \in {"simulateIntervention", "calculateCostBenefit"}

\* C16 as stated: impact score = 0.4 * LOS-reduction% + 0.3 * |bed-utilization
\* change| + 0.3 * readmission-risk reduction and ROI = (impact score *
\* patients impacted * 1000) / estimated cost, ROI = 0 when the cost is 0, and
\* patients impacted is the projected throughput.
C16_ImpactAndRoiExact ==
  HasCostBenefit =>
    LET im == simulation.improvements
        cb == simulation.costBenefit
    IN  /\ FiniteImpactInputs(im) => cb.impactScore = XNum(WeightedImpact(im))
        /\ (FiniteImpactInputs(im) /\ IsFiniteNumber(im.patientsImpacted)
              /\ cb.estimatedCost[1] > 0)
             => cb.roi = XNum(RatDiv(RatMul(RatMul(WeightedImpact(im), im.patientsImpacted.v),
                                            RatOf(1000)),
                                     cb.estimatedCost))
        /\ cb.estimatedCost = Zero => cb.roi = XInt(0)
        /\ op = "simulateIntervention" => im.patientsImpacted = simulation.projected.throughput

\* C16, amended: the impact score is that weighted sum to the nearest tenth,
\* the ROI is (weighted sum * patients impacted * 1000) / estimated cost to
\* the nearest hundredth, 0 whenever the cost is 0, both NaN (the ROI for a
\* positive cost) when an improvement they read is NaN, and patients
\* impacted is the projected throughput.
C16_ImpactAndRoiRounded ==
  HasCostBenefit =>
    LET im == simulation.improvements
        cb == simulation.costBenefit
    IN  /\ FiniteImpactInputs(im)
             => /\ IsFiniteNumber(cb.impactScore)
                /\ Within(cb.impactScore.v, WeightedImpact(im), <<1, 20>>)
                /\ cb.impactScore.v[2] \in {1, 2, 5, 10}
        /\ (FiniteImpactInputs(im) /\ IsFiniteNumber(im.patientsImpacted)
              /\ cb.estimatedCost[1] > 0)
             => /\ IsFiniteNumber(cb.roi)
                /\ Within(cb.roi.v,
                          RatDiv(RatMul(RatMul(WeightedImpact(im), im.patientsImpacted.v),
                                        RatOf(1000)),
                                 cb.estimatedCost),
                          <<1, 200>>)
        /\ ~FiniteImpactInputs(im) => cb.impactScore = NaN
        /\ ((~FiniteImpactInputs(im) \/ ~IsFiniteNumber(im.patientsImpacted))
              /\ cb.estimatedCost[1] > 0)
             => cb.roi = NaN
        /\ cb.estimatedCost = Zero => cb.roi = XInt(0)
        /\ op = "simulateIntervention" => im.patientsImpacted = simulation.projected.throughput

\* a simulation whose weighted sum has two decimals (it is not its own
\* rounding) with a positive cost and ROI
C16_Witness ==
  /\ op = "simulateIntervention"
  /\ FiniteImpactInputs(simulation.improvements)
  /\ simulation.costBenefit.impactScore # XNum(WeightedImpact(simulation.improvements))
  /\ simulation.costBenefit.estimatedCost[1] > 0
  /\ XLt(XInt(0), simulation.costBenefit.roi)
  /\ XLt(XInt(0), simulation.improvements.patientsImpacted)

\* the three weights all act on a non-zero improvement
C16_WitnessAllTerms ==
  /\ op = "calculateCostBenefit"
  /\ simulation.improvements.losReductionPercent = XNum(<<25, 2>>)
  /\ simulation.improvements.bedUtilizationChange = XNum(<<-167, 10>>)
  /\ simulation.improvements.readmissionRiskReduction = XNum(<<1, 2>>)
  /\ simulation.costBenefit.impactScore = XNum(<<51, 5>>)
  /\ simulation.costBenefit.estimatedCost[1] > 0

\* a cost of 0 with a non-zero impact score
C16_WitnessZeroCost ==
  /\ HasCostBenefit
  /\ simulation.costBenefit.estimatedCost = Zero
  /\ XLt(XInt(0), simulation.costBenefit.impactScore)
  /\ XLt(XInt(0), simulation.improvements.patientsImpacted)
  /\ simulation.costBenefit.roi = XInt(0)

\* simulations[i] has an ROI at least that of simulations[j]
RoiAtLeast(a, b) ==
  /\ a.costBenefit.roi # NaN
  /\ b.costBenefit.roi # NaN
  /\ ~XLt(a.costBenefit.roi, b.costBenefit.roi)

\* C17: compareInterventions returns one simulation per input intervention,
\* ordered by ROI descending; optimalIntervention is the first of them and
\* its ROI is at least that of every other simulation; for an empty list it
\* is null and no recommendation names a best intervention.
C17_RankedByRoiDescending ==
  op = "compareInterventions" =>
    LET ss == comparison.simulations
    IN  /\ \A i \in DOMAIN ss : \A j \in DOMAIN ss : i < j => RoiAtLeast(ss[i], ss[j])
        /\ Len(ss) > 0 =>
             /\ comparison.optimalIntervention = ss[1]
             /\ \A j \in DOMAIN ss : j > 1 => RoiAtLeast(comparison.optimalIntervention, ss[j])
        /\ Len(ss) = 0 =>
             /\ comparison.optimalIntervention = NoSimulation
             /\ \A k \in DOMAIN comparison.recommendations :
                  comparison.recommendations[k].kind # "Best ROI"

\* what holds of every comparison: whenever all ROIs are numbers the list is
\* in descending order; the first element is the optimal one; the empty list
\* gives null and no best intervention
C17_RankedWhenRoisAreNumbers ==
  op = "compareInterventions" =>
    LET ss == comparison.simulations
    IN  /\ (\A i \in DOMAIN ss : ss[i].costBenefit.roi # NaN)
             => \A i \in DOMAIN ss : \A j \in DOMAIN ss : i < j => RoiAtLeast(ss[i], ss[j])
        /\ Len(ss) > 0 => comparison.optimalIntervention = ss[1]
        /\ Len(ss) = 0 =>
             /\ comparison.optimalIntervention = NoSimulation
             /\ comparison.recommendations = <<>>

\* the optimal intervention of a comparison has NaN as its ROI and the
\* simulation ranked after it has a positive one
C17_Witness ==
  /\ op = "compareInterventions"
  /\ Len(comparison.simulations) = 2
  /\ comparison.optimalIntervention.costBenefit.roi = NaN
  /\ XLt(XInt(0), comparison.simulations[2].costBenefit.roi)
  /\ \E k \in DOMAIN comparison.recommendations :
       /\ comparison.recommendations[k].kind = "Best ROI"
       /\ comparison.recommendations[k].type = comparison.optimalIntervention.intervention.type

\* ------------------------------------------- readmission scoring (C18 - C20)
\* the record a risk result was computed for
Scored == records[risk.recordId]

HasFactor(name) ==
  \E i \in DOMAIN risk.contributingFactors : risk.contributingFactors[i].factor = name

ImpactOf(name) ==
  TotalImpact(SelectSeq(risk.contributingFactors, LAMBDA f : f.factor = name))

IsFridayOrSaturday(date) == date # NoDate /\ date % 7 \in {5, 6}

\* C18: predictReadmissionRisk adds the +10 weekend factor if and only if the
\* discharge date of the scored patient falls on a Friday or a Saturday,
\* whatever the weekday of the admission.
C18_WeekendFactorIffDischargedFriSat ==
  risk.status = "ok" =>
    /\ HasFactor("Weekend Discharge") <=> IsFridayOrSaturday(Scored.dischargeDate)
    /\ ImpactOf("Weekend Discharge")
         = (IF IsFridayOrSaturday(Scored.dischargeDate) THEN 10 ELSE 0)

\* what the code does for C18: the factor follows the weekday getDay() reads
\* from the admission date, which is the calendar day or the day before it
C18_WeekendFactorFollowsAdmission ==
  risk.status = "ok" =>
    /\ HasFactor("Weekend Discharge") =>
         /\ Scored.admissionDate # NoDate
         /\ \E daysBehind \in ZoneOffsets :
              GetDay(Scored.admissionDate, daysBehind) \in {5, 6}
         /\ ImpactOf("Weekend Discharge") = 10
    /\ (Scored.admissionDate # NoDate
        /\ \A daysBehind \in ZoneOffsets :
             GetDay(Scored.admissionDate, daysBehind) \in {5, 6})
       => HasFactor("Weekend Discharge")

\* admitted on a Wednesday and discharged on a Friday: no weekend factor
C18_Witness ==
  /\ risk.status = "ok"
  /\ Scored.admissionDate % 7 = 3
  /\ IsFridayOrSaturday(Scored.dischargeDate)
  /\ ~HasFactor("Weekend Discharge")

\* admitted on a Saturday and discharged on a Monday: the factor is added
C18_WitnessAdmittedSaturday ==
  /\ risk.status = "ok"
  /\ Scored.admissionDate % 7 = 6
  /\ Scored.dischargeDate # NoDate
  /\ Scored.dischargeDate % 7 = 1
  /\ HasFactor("Weekend Discharge")

\* a patient who was discharged: both dates are known
Discharged == Scored.admissionDate # NoDate /\ Scored.dischargeDate # NoDate

StayInDays == Scored.dischargeDate - Scored.admissionDate

\* an earlier admission of the scored patient is among the records
HasPriorAdmission ==
  \E j \in DOMAIN records :
    /\ j # risk.recordId
    /\ records[j].patientId = Scored.patientId
    /\ records[j].admissionDate # NoDate
    /\ Scored.admissionDate # NoDate
    /\ records[j].admissionDate < Scored.admissionDate

\* LOS of one day, no delays, at most five stages, no history, discharged on
\* a Wednesday
QuietShortStay ==
  /\ Discharged
  /\ StayInDays = 1
  /\ CalculateOperationalDelayScore(Scored) = 0
  /\ Len(Scored.journeySteps) <= 5
  /\ ~HasPriorAdmission
  /\ Scored.dischargeDate % 7 = 3

LevelMatchesScore ==
  risk.riskLevel = (IF risk.riskScore >= 70 THEN "critical"
                    ELSE IF risk.riskScore >= 50 THEN "high"
                    ELSE IF risk.riskScore >= 30 THEN "medium"
                    ELSE "low")

\* C19: every discharged patient with a length of stay below 2 days, a
\* same-day discharge (0 days) included, gets the +25 short-stay factor and
\* every stay above 14 days the +20 long-stay factor; the quiet one-day stay
\* discharged on a Wednesday scores exactly 25 and is 'low'; the level is
\* critical from 70, high from 50, medium from 30 and low below.
C19_ShortAndLongStayFactors ==
  risk.status = "ok" =>
    /\ (Discharged /\ StayInDays < 2) => ImpactOf("Short Length of Stay") = 25
    /\ (Discharged /\ StayInDays > 14) => ImpactOf("Extended Length of Stay") = 20
    /\ QuietShortStay => (risk.riskScore = 25 /\ risk.riskLevel = "low")
    /\ LevelMatchesScore

\* what the code does for C19: the short-stay factor needs a stay above 0
C19_StayFactorsOfPositiveStays ==
  risk.status = "ok" =>
    /\ ImpactOf("Short Length of Stay")
         = (IF Discharged /\ StayInDays > 0 /\ StayInDays < 2 THEN 25 ELSE 0)
    /\ ImpactOf("Extended Length of Stay")
         = (IF Discharged /\ StayInDays > 14 THEN 20 ELSE 0)
    /\ QuietShortStay => (risk.riskScore = 25 /\ risk.riskLevel = "low")
    /\ LevelMatchesScore

\* a same-day discharge was scored and has no short-stay factor
C19_Witness ==
  /\ risk.status = "ok"
  /\ Discharged
  /\ StayInDays = 0
  /\ ~HasFactor("Short Length of Stay")

\* the quiet one-day stay was scored: 25, low
C19_WitnessQuietShortStay ==
  /\ risk.status = "ok"
  /\ QuietShortStay
  /\ risk.riskScore = 25
  /\ risk.riskLevel = "low"

\* a critical score was reached
C19_WitnessLevels ==
  /\ risk.status = "ok"
  /\ risk.riskLevel = "critical"
  /\ risk.riskScore >= 70

\* a stay above 14 days was scored
C19_WitnessLongStay ==
  /\ risk.status = "ok"
  /\ Discharged
  /\ StayInDays > 14
  /\ ImpactOf("Extended Length of Stay") = 20

\* the other admissions of the scored patient within the 90 days before the
\* scored admission
PriorAdmissions ==
  {j \in DOMAIN records :
     /\ j # risk.recordId
     /\ records[j].patientId = Scored.patientId
     /\ records[j].admissionDate # NoDate
     /\ Scored.admissionDate # NoDate
     /\ records[j].admissionDate < Scored.admissionDate
     /\ records[j].admissionDate > Scored.admissionDate - 90}

\* C20: the prior-admission factor is min(30, 15 * k), k the number of other
\* admissions of the same patient within the 90 days before the scored
\* admission; it is absent when k = 0; admissions of other patients,
\* admissions 90 or more days earlier and later admissions never count.
C20_PriorAdmissionFactor ==
  risk.status = "ok" =>
    /\ ImpactOf("Recent Hospital Visits") = Min(30, 15 * Cardinality(PriorAdmissions))
    /\ HasFactor("Recent Hospital Visits") <=> PriorAdmissions # {}

\* three admissions within the 90 days: the factor is capped at 30
C20_Witness ==
  /\ risk.status = "ok"
  /\ Cardinality(PriorAdmissions) = 3
  /\ ImpactOf("Recent Hospital Visits") = 30

\* one admission 89 days earlier: the factor is 15
C20_WitnessOne ==
  /\ risk.status = "ok"
  /\ PriorAdmissions # {}
  /\ \A j \in PriorAdmissions : records[j].admissionDate = Scored.admissionDate - 89
  /\ ImpactOf("Recent Hospital Visits") = 15

\* another patient's admission, one exactly 90 days earlier and a later one
\* are among the records, and the factor is absent
C20_WitnessNoneCounts ==
  /\ risk.status = "ok"
  /\ Scored.admissionDate # NoDate
  /\ \E j \in DOMAIN records : records[j].patientId # Scored.patientId
  /\ \E j \in DOMAIN records :
       /\ records[j].patientId = Scored.patientId
       /\ records[j].admissionDate = Scored.admissionDate - 90
  /\ \E j \in DOMAIN records :
       /\ records[j].patientId = Scored.patientId
       /\ records[j].admissionDate > Scored.admissionDate
  /\ ~HasFactor("Recent Hospital Visits")

\* ------------------------------------------- bottleneck predictions (C21, C27)
\* the patients currently in a department, and their waits above 60 minutes
WardOf(dept) == SelectSeq(records, LAMBDA r : r.currentDepartment = dept)

RECURSIVE WaitsAbove60(_)
WaitsAbove60(steps) ==
  IF steps = <<>> THEN <<>>
  ELSE (IF Head(steps).waitTimeMinutes > 60 THEN <<Head(steps).waitTimeMinutes>> ELSE <<>>)
       \o WaitsAbove60(Tail(steps))

RECURSIVE WardWaitsAbove60(_)
WardWaitsAbove60(ward) ==
  IF ward = <<>> THEN <<>>
  ELSE WaitsAbove60(Head(ward).journeySteps) \o WardWaitsAbove60(Tail(ward))

\* 10 * f as a fraction, f the delay frequency of the department
TenF(dept) == Rat(10 * Len(WardWaitsAbove60(WardOf(dept))), Len(WardOf(dept)))

\* the average of the waits above 60 minutes, 0 when there is none
AvgOver60(dept) ==
  IF WardWaitsAbove60(WardOf(dept)) = <<>> THEN Zero
  ELSE Rat(SumSeq(WardWaitsAbove60(WardOf(dept))), Len(WardWaitsAbove60(WardOf(dept))))

\* the level the thresholds assign with inclusive frequency boundaries
LevelInclusive(dept) ==
  IF RatLeq(RatOf(3), TenF(dept)) /\ RatLt(RatOf(120), AvgOver60(dept)) THEN "critical"
  ELSE IF RatLeq(RatOf(2), TenF(dept)) \/ RatLt(RatOf(90), AvgOver60(dept)) THEN "high"
  ELSE IF RatLeq(RatOf(1), TenF(dept)) \/ RatLt(RatOf(60), AvgOver60(dept)) THEN "medium"
  ELSE "low"

\* the same with exclusive frequency boundaries
LevelExclusive(dept) ==
  IF RatLt(RatOf(3), TenF(dept)) /\ RatLt(RatOf(120), AvgOver60(dept)) THEN "critical"
  ELSE IF RatLt(RatOf(2), TenF(dept)) \/ RatLt(RatOf(90), AvgOver60(dept)) THEN "high"
  ELSE IF RatLt(RatOf(1), TenF(dept)) \/ RatLt(RatOf(60), AvgOver60(dept)) THEN "medium"
  ELSE "low"

ProbabilityMatchesLevel(p) ==
  p.probability = (IF p.riskLevel = "critical" THEN Rat(85, 100)
                   ELSE IF p.riskLevel = "high" THEN Rat(65, 100)
                   ELSE IF p.riskLevel = "medium" THEN Rat(40, 100)
                   ELSE Rat(15, 100))

\* C21: predictBottlenecks assigns level and probability from the delay
\* frequency f and the average delay d, first match wins: f >= 0.3 and
\* d > 120 critical (0.85), f >= 0.2 or d > 90 high (0.65), f >= 0.1 or
\* d > 60 medium (0.40), else low (0.15); the frequency boundaries are
\* inclusive.
C21_LevelsWithInclusiveFrequency ==
  predictions.status = "ok" =>
    \A i \in DOMAIN predictions.items :
      /\ predictions.items[i].riskLevel = LevelInclusive(predictions.items[i].departmentName)
      /\ ProbabilityMatchesLevel(predictions.items[i])

\* what the code does for C21: the frequency boundaries are exclusive
C21_LevelsWithExclusiveFrequency ==
  predictions.status = "ok" =>
    \A i \in DOMAIN predictions.items :
      /\ predictions.items[i].riskLevel = LevelExclusive(predictions.items[i].departmentName)
      /\ ProbabilityMatchesLevel(predictions.items[i])

\* f is exactly 0.3 with an average delay above 120 and the level is high
C21_Witness ==
  /\ predictions.status = "ok"
  /\ \E i \in DOMAIN predictions.items :
       /\ TenF(predictions.items[i].departmentName) = RatOf(3)
       /\ RatLt(RatOf(120), AvgOver60(predictions.items[i].departmentName))
       /\ predictions.items[i].riskLevel = "high"

\* f is exactly 0.2 with an average delay of at most 90 and the level is medium
C21_WitnessOneFifth ==
  /\ predictions.status = "ok"
  /\ \E i \in DOMAIN predictions.items :
       /\ TenF(predictions.items[i].departmentName) = RatOf(2)
       /\ ~RatLt(RatOf(90), AvgOver60(predictions.items[i].departmentName))
       /\ predictions.items[i].riskLevel = "medium"

\* a critical department: f above 0.3 and an average delay above 120
C21_WitnessCritical ==
  /\ predictions.status = "ok"
  /\ \E i \in DOMAIN predictions.items :
       /\ predictions.items[i].riskLevel = "critical"
       /\ predictions.items[i].probability = Rat(85, 100)

C27_WitnessSixty ==
  /\ predictions.status = "ok"
  /\ \E i \in DOMAIN predictions.items :
       /\ predictions.items[i].riskLevel = "low"
       /\ \E j \in DOMAIN records :
            /\ records[j].currentDepartment = predictions.items[i].departmentName
            /\ \E k \in DOMAIN records[j].journeySteps :
                 records[j].journeySteps[k].waitTimeMinutes = 60

C22_WitnessFiltered ==
  /\ op = "detectBottlenecksAgain"
  /\ filters # NoFilter
  /\ Len(bottlenecks) >= 1

\* ------------------------------------------------- admission forecast (C30)
HasAdmissionHistory == AdmissionDays(records) # {}

LastAdmissionDay == CHOOSE d \in AdmissionDays(records) : \A e \in AdmissionDays(records) : e <= d

\* the slope the trend label is derived from
ForecastSlope ==
  CalculateTrend(ExponentialSmoothing(
    AdmissionValues(records, SortedDays(AdmissionDays(records)))))

LabelOfSlope ==
  IF RatLt(Rat(1, 2), ForecastSlope) THEN "increasing"
  ELSE IF RatLt(ForecastSlope, Rat(-1, 2)) THEN "decreasing"
  ELSE "stable"

\* N points, bounds in order around the prediction, one label for all
PointsAreWellFormed ==
  /\ Len(forecasts.items) = forecasts.days
  /\ \A i \in DOMAIN forecasts.items :
       /\ 0 <= forecasts.items[i].lower
       /\ forecasts.items[i].lower <= forecasts.items[i].predictedAdmissions
       /\ forecasts.items[i].predictedAdmissions <= forecasts.items[i].upper
       /\ forecasts.items[i].trend = LabelOfSlope

\* C30: with a non-empty admission history and horizon N, forecastAdmissions
\* returns exactly N points, one per consecutive day after the last observed
\* admission day, each with 0 <= lower <= predicted <= upper and all with
\* the same trend label: increasing only for a slope above 0.5, decreasing
\* only below -0.5, stable otherwise.
C30_OnePointPerConsecutiveDay ==
  (forecasts.status = "ok" /\ HasAdmissionHistory) =>
    /\ PointsAreWellFormed
    /\ \A i \in DOMAIN forecasts.items : forecasts.items[i].date = LastAdmissionDay + i

\* what the code does for C30: the dates are consecutive as long as the local
\* clock does not go forward within the horizon, and from then on a day early
C30_PointsAndDatesUpToClockChange ==
  (forecasts.status = "ok" /\ HasAdmissionHistory) =>
    /\ PointsAreWellFormed
    /\ \A i \in DOMAIN forecasts.items :
         forecasts.items[i].date
           = (IF i < forecasts.clockForward THEN LastAdmissionDay + i
              ELSE LastAdmissionDay + i - 1)

\* the clock goes forward within the horizon and two points carry one date
C30_Witness ==
  /\ forecasts.status = "ok"
  /\ HasAdmissionHistory
  /\ forecasts.days >= 3
  /\ \E i \in DOMAIN forecasts.items :
       /\ i + 1 \in DOMAIN forecasts.items
       /\ forecasts.items[i].date = forecasts.items[i + 1].date

\* an increasing forecast with a lower bound above 0
C30_WitnessIncreasing ==
  /\ forecasts.status = "ok"
  /\ HasAdmissionHistory
  /\ forecasts.days = MaxHorizon
  /\ forecasts.items[1].trend = "increasing"
  /\ forecasts.items[1].lower > 0
  /\ forecasts.items[1].upper > forecasts.items[1].predictedAdmissions

\* a decreasing forecast that reaches 0
C30_WitnessDecreasing ==
  /\ forecasts.status = "ok"
  /\ HasAdmissionHistory
  /\ forecasts.days = MaxHorizon
  /\ forecasts.items[1].trend = "decreasing"
  /\ \E i \in DOMAIN forecasts.items : forecasts.items[i].predictedAdmissions = 0

\* ------------------------------------------------------- empty inputs (C23)
\* no stored row survives the guards and the department filter
NothingLeft ==
  \A i \in DOMAIN flowLogs :
    \/ flowLogs[i].patient = NoId
    \/ flowLogs[i].entry = NoTime
    \/ flowLogs[i].exit = NoTime
    \/ flowLogs[i].exit < flowLogs[i].entry
    \/ (filters # NoFilter /\ DeptName(flowLogs[i]) # filters)

\* C23: with an entirely empty input (no rows, or none left after filtering)
\* getPatientJourneys, detectBottlenecks, getDelayPropagationMap and
\* getDepartmentDelays return an empty array, and forecastAdmissions on an
\* empty record list returns an empty array.
C23_EmptyInputYieldsEmptyArray ==
  /\ (op = "getPatientJourneys" /\ NothingLeft) => journeys = <<>>
  /\ (op = "detectBottlenecks" /\ NothingLeft) => (bottlenecks = <<>> /\ deptMetrics = <<>>)
  /\ (op = "getDelayPropagationMap" /\ NothingLeft) => propagations = <<>>
  /\ (op = "getDepartmentDelays" /\ NothingLeft) => deptDelays.items = <<>>
  /\ (op = "forecastAdmissions" /\ AdmissionDays(records) = {}) => forecasts.items = <<>>

\* rows are stored, none of them in the filtered department, and an analysis
\* has returned
C23_Witness ==
  /\ op \in {"getPatientJourneys", "detectBottlenecks", "getDelayPropagationMap",
             "getDepartmentDelays"}
  /\ Len(flowLogs) = MaxLogs
  /\ filters # NoFilter
  /\ NothingLeft

\* no rows at all and the delay table is empty
C23_WitnessNoRows ==
  /\ op = "getDepartmentDelays"
  /\ flowLogs = <<>>
  /\ deptDelays.items = <<>>

\* the forecast of an empty record list for 14 days is empty
C23_WitnessForecast ==
  /\ op = "forecastAdmissions"
  /\ records = <<>>
  /\ forecasts.days = 14
  /\ forecasts.items = <<>>

\* ---------------------------------------------------- input snapshot (C24)
\* a simulation that has all its answers used one department row
UsedOneRow(task) == task.pc = "done" => task.baselineRow = task.currentRow

SameBaselinePerDepartment ==
  \A i, j \in DOMAIN comparison.simulations :
    comparison.simulations[i].intervention.departmentName
      = comparison.simulations[j].intervention.departmentName
    => comparison.simulations[i].baseline = comparison.simulations[j].baseline

\* C24: within one simulateIntervention or compareInterventions call the
\* journeys and the department row used for the baseline and for every
\* projection are the same, so all simulations of one comparison for the
\* same department report identical baseline metrics, even when records are
\* uploaded or cleared while the call is in flight.
C24_OneSnapshotPerCall ==
  /\ simulation.status \in {"running", "resolved"} =>
       \A i \in DOMAIN simulation.tasks : UsedOneRow(simulation.tasks[i])
  /\ comparison.status = "ok" => SameBaselinePerDepartment

\* what the code does for C24: the baselines agree when the queries of the
\* simulations happened to get the same answers
C24_SameAnswersSameBaseline ==
  (comparison.status = "ok"
   /\ \A i, j \in DOMAIN simulation.tasks :
        /\ simulation.tasks[i].logs = simulation.tasks[j].logs
        /\ simulation.tasks[i].baselineRow = simulation.tasks[j].baselineRow)
  => SameBaselinePerDepartment

\* a comparison of two interventions on one department has returned with two
\* different baselines
C24_Witness ==
  /\ comparison.status = "ok"
  /\ Len(comparison.simulations) = 2
  /\ comparison.simulations[1].intervention.departmentName
       = comparison.simulations[2].intervention.departmentName
  /\ comparison.simulations[1].baseline # comparison.simulations[2].baseline

\* a single simulation whose baseline and projection used different rows
C24_WitnessOneSimulation ==
  /\ comparison.status = "ok"
  /\ Len(simulation.tasks) = 1
  /\ simulation.tasks[1].baselineRow # simulation.tasks[1].currentRow

\* ---------------------------------------------- cleaned flow logs (C25)
Cleaned == cleanResult.status = "ok"

PatientIds == {"p1", "p2"}

\* the rows of the file that belong to one patient
RowsOfPatient(p) == SelectSeq(csvRows, LAMBDA row : Trim(row.patient_id) = p)

\* the logs put out for one patient, in output order
OutputOfPatient(p) == SelectSeq(cleanResult.cleaned, LAMBDA log : log.patient_id = p)

\* two visits share some time
VisitsOverlap(a, b) == a.entry_time < b.exit_time /\ b.entry_time < a.exit_time

\* a row that is complete and does not end before it starts
IsUsableRow(row) ==
  /\ ~MissingRequiredFields(row)
  /\ ExitTimeOf(row) >= ParseDateTime(row.entry_time)

UsableRowsOfPatient(p) == SelectSeq(RowsOfPatient(p), IsUsableRow)

HasOverlappingPair(p) ==
  \E i, j \in DOMAIN UsableRowsOfPatient(p) :
    /\ i # j
    /\ VisitsOverlap(CleanedLog(UsableRowsOfPatient(p)[i]),
                     CleanedLog(UsableRowsOfPatient(p)[j]))

\* rejections: rows dropped by the first loop, patients dropped by the second
RejectedRows == Cardinality({i \in DOMAIN csvRows : ~IsUsableRow(csvRows[i])})

RejectedPatients ==
  Cardinality({p \in PatientIds : UsableRowsOfPatient(p) # <<>> /\ OutputOfPatient(p) = <<>>})

OutputInEntryOrderWithoutOverlap(p) ==
  \A i \in 2..Len(OutputOfPatient(p)) :
    /\ OutputOfPatient(p)[i - 1].entry_time <= OutputOfPatient(p)[i].entry_time
    /\ OutputOfPatient(p)[i].entry_time >= OutputOfPatient(p)[i - 1].exit_time

\* C25: cleanDepartmentFlowLogs never outputs a log whose exit is before its
\* entry; per patient the output, ordered by entry time, does not overlap; a
\* patient with an overlapping pair contributes no logs; every rejection adds
\* an error message; the logs of the other patients are unaffected.
C25_CleanedLogsAreOrderedAndDisjoint ==
  Cleaned =>
    /\ \A i \in DOMAIN cleanResult.cleaned :
         cleanResult.cleaned[i].exit_time >= cleanResult.cleaned[i].entry_time
    /\ \A i \in DOMAIN cleanResult.cleaned : cleanResult.cleaned[i].patient_id \in PatientIds
    /\ \A p \in PatientIds :
         /\ OutputInEntryOrderWithoutOverlap(p)
         /\ \A i, j \in DOMAIN OutputOfPatient(p) :
              i # j => ~VisitsOverlap(OutputOfPatient(p)[i], OutputOfPatient(p)[j])
         /\ HasOverlappingPair(p) => OutputOfPatient(p) = <<>>
         /\ OutputOfPatient(p) \in {<<>>, SortByEntry(KeptLogs(RowsOfPatient(p)))}
         /\ OutputOfPatient(p) = CleanDepartmentFlowLogs(RowsOfPatient(p)).cleaned
    /\ Len(cleanResult.errors) = RejectedRows + RejectedPatients

\* a file with a row ending before it starts, a patient with two overlapping
\* visits and another patient whose log is put out
C25_Witness ==
  /\ Cleaned
  /\ HasOverlappingPair("p1")
  /\ OutputOfPatient("p2") # <<>>
  /\ RejectedRows > 0

\* a missing exit time is imputed with the median duration and then overlaps
C25_WitnessImputedOverlap ==
  /\ Cleaned
  /\ csvRows = <<CsvRow("p1", "er", 60, EmptyCell), CsvRow(" p1", "ward 7", 60, 60)>>
  /\ cleanResult.cleaned = <<>>
  /\ Len(cleanResult.errors) = 1

\* two visits of one patient put out in entry order
C25_WitnessSorted ==
  /\ Cleaned
  /\ Len(OutputOfPatient("p1")) = 2
  /\ csvRows[1].entry_time > csvRows[2].entry_time

\* ------------------------------------------------ upload sequence (C26)
Running == uploader.pc # "idle"

TerminalStatuses == {"success", "error"}

\* the statuses a dataset may have been given so far, in order
StatusPaths ==
  {<<>>, <<"validating">>, <<"validating", "error">>, <<"validating", "cleaning">>,
   <<"validating", "cleaning", "error">>, <<"validating", "cleaning", "uploading">>,
   <<"validating", "cleaning", "uploading", "success">>,
   <<"validating", "cleaning", "uploading", "error">>}

PositionInOrder(type) == CHOOSE i \in DOMAIN UPLOAD_ORDER : UPLOAD_ORDER[i] = type

StartedInUploadOrder ==
  /\ \A i, j \in DOMAIN uploader.started :
       i < j => PositionInOrder(uploader.started[i]) < PositionInOrder(uploader.started[j])
  /\ \A i \in DOMAIN uploader.started : uploader.started[i] \in uploader.files
  /\ \A i \in DOMAIN uploader.started :
       \A type \in uploader.files :
         PositionInOrder(type) < PositionInOrder(uploader.started[i])
         => \E j \in 1..(i - 1) : uploader.started[j] = type

\* a dataset is taken up only when the one before it has ended
OneDatasetAtATime ==
  /\ uploader.finished \subseteq {uploader.started[i] : i \in DOMAIN uploader.started}
  /\ \A i \in DOMAIN uploader.started :
       i < Len(uploader.started) => uploader.started[i] \in uploader.finished
  /\ (uploader.started # <<>>
      /\ uploader.started[Len(uploader.started)] \notin uploader.finished)
     => /\ uploader.trail # <<>>
        /\ uploader.trail[Len(uploader.trail)] \notin TerminalStatuses
        /\ StatusOf(uploader.started[Len(uploader.started)])
             \in {"none", uploader.trail[Len(uploader.trail)]}

UploadSequenceIsSafe ==
  /\ uploader.trail \in StatusPaths
  /\ StartedInUploadOrder
  /\ OneDatasetAtATime
  /\ Running => (isUploading /\ uploader.completions = uploader.calls - 1)
  /\ ~Running => /\ ~isUploading
                 /\ uploader.completions = uploader.calls
                 /\ uploader.finished = uploader.files

\* C26: processAndUpload takes the selected datasets in the order patients,
\* departments, flowLogs, doctors, readmissions; each selected dataset goes
\* through validating, cleaning, uploading in that order (error from any of
\* them) and eventually has a terminal status, whatever happened to the
\* datasets before it; at the end the uploading flag is false and
\* onUploadComplete has been called exactly once.
C26_EveryDatasetReachesTerminalStatus ==
  /\ []UploadSequenceIsSafe
  /\ \A type \in DatasetTypes :
       (Running /\ type \in uploader.files /\ type \notin uploader.finished)
         ~> (type \in uploader.finished /\ StatusOf(type) \in TerminalStatuses)
  /\ Running ~> (~Running /\ ~isUploading)

\* all five datasets were selected, the first failed, the last succeeded and
\* the call has returned
C26_Witness ==
  /\ ~Running
  /\ uploader.calls = 1
  /\ uploader.completions = 1
  /\ uploader.files = DatasetTypes
  /\ uploader.started = UPLOAD_ORDER
  /\ StatusOf("patients") = "error"
  /\ StatusOf("flowLogs") = "error"
  /\ StatusOf("readmissions") = "success"

\* a file was selected for a dataset while its upload was awaited
C26_WitnessSelectedMeanwhile ==
  /\ uploader.pc = "upload"
  /\ StatusOf(UPLOAD_ORDER[uploader.index]) = "none"

\* ------------------------------------------- risk result invariants (C28)
FactorNames(fs) == {fs[i].factor : i \in DOMAIN fs}

NoDuplicates(items) == \A i, j \in DOMAIN items : i # j => items[i] # items[j]

\* C28: in every result of predictReadmissionRisk the score is the sum of the
\* factor impacts, no factor name occurs twice (short and long stay exclude
\* each other), the factors are listed by impact descending, the score is
\* within 0..110, and the recommendations have no duplicate and at most 5
\* entries.
C28_RiskResultIsWellFormed ==
  risk.status = "ok" =>
    /\ risk.riskScore = TotalImpact(risk.contributingFactors)
    /\ Cardinality(FactorNames(risk.contributingFactors)) = Len(risk.contributingFactors)
    /\ ~({"Short Length of Stay", "Extended Length of Stay"}
           \subseteq FactorNames(risk.contributingFactors))
    /\ \A i \in 2..Len(risk.contributingFactors) :
         risk.contributingFactors[i - 1].impact >= risk.contributingFactors[i].impact
    /\ risk.riskScore \in 0..110
    /\ NoDuplicates(risk.preventionRecommendations)
    /\ Len(risk.preventionRecommendations) <= 5

\* the highest score: five factors, and more recommendations than are kept
C28_Witness ==
  /\ risk.status = "ok"
  /\ risk.riskScore = 110
  /\ Len(risk.contributingFactors) = 5
  /\ Len(risk.preventionRecommendations) = 5

\* factors pushed in another order than they are listed
C28_WitnessReordered ==
  /\ risk.status = "ok"
  /\ Len(risk.contributingFactors) >= 2
  /\ risk.contributingFactors[1].factor = "Operational Delays"
  /\ "Short Length of Stay" \in FactorNames(risk.contributingFactors)

\* --------------------------------------- projections and baseline (C29)
\* a <= b as JavaScript compares numbers: false when either is NaN
AtMost(a, b) == a.k # "nan" /\ b.k # "nan" /\ ~XLt(b, a)

SimulatedPositive ==
  /\ op = "simulateIntervention"
  /\ simulation.status = "ok"
  /\ simulation.intervention.type \in KnownTypes
  /\ simulation.intervention.value > 0

NotWorseThanBaseline(s) ==
  /\ AtMost(s.projected.averageLOS, s.baseline.averageLOS)
  /\ AtMost(s.projected.avgProcessingTime, s.baseline.avgProcessingTime)
  /\ AtMost(s.projected.bedUtilization, s.baseline.bedUtilization)
  /\ AtMost(s.projected.readmissionRisk, s.baseline.readmissionRisk)
  /\ AtMost(s.baseline.throughput, s.projected.throughput)
  /\ AtMost(XInt(0), s.improvements.losReduction)
  /\ AtMost(XInt(0), s.improvements.bedUtilizationChange)
  /\ AtMost(XInt(0), s.improvements.readmissionRiskReduction)

\* C29: for every intervention of type staff, beds or processing_time with a
\* positive magnitude and every baseline, simulateIntervention projects no
\* value worse than the baseline: LOS, processing time, bed utilization and
\* readmission risk are <= the baseline and throughput is >= the baseline, so
\* LOS reduction, utilization change and risk reduction are all >= 0.
C29_NeverWorseThanBaseline ==
  SimulatedPositive => NotWorseThanBaseline(simulation)

\* what the code does for C29: processing time, bed utilization, readmission
\* risk and throughput are no worse when the baseline processing time is at
\* least the 5-minute floor; the projected length of stay is never below 0.1
\* days while the baseline length of stay is 0
C29_NeverWorseExceptLengthOfStay ==
  (/\ SimulatedPositive
   /\ AtMost(XInt(MinProcessingTime), simulation.baseline.avgProcessingTime))
  => /\ AtMost(simulation.projected.avgProcessingTime, simulation.baseline.avgProcessingTime)
     /\ AtMost(simulation.projected.bedUtilization, simulation.baseline.bedUtilization)
     /\ AtMost(simulation.projected.readmissionRisk, simulation.baseline.readmissionRisk)
     /\ AtMost(simulation.baseline.throughput, simulation.projected.throughput)
     /\ AtMost(XInt(0), simulation.improvements.bedUtilizationChange)
     /\ AtMost(XInt(0), simulation.improvements.readmissionRiskReduction)
     /\ simulation.baseline.averageLOS = XInt(0)
     /\ simulation.projected.averageLOS = XNum(<<1, 10>>)
     /\ simulation.improvements.losReduction = XNum(<<-1, 10>>)

\* a processing-time reduction on a unit whose stages take 4 minutes on
\* average: the projection is the 5-minute floor
C29_Witness ==
  /\ SimulatedPositive
  /\ simulation.intervention.type = "processing_time"
  /\ simulation.baseline.avgProcessingTime = XInt(4)
  /\ simulation.projected.avgProcessingTime = XInt(MinProcessingTime)

\* more staff on a unit whose stages take 8 minutes: the length of stay goes
\* from 0 to 0.1 days
C29_WitnessLengthOfStay ==
  /\ SimulatedPositive
  /\ simulation.intervention.type = "staff"
  /\ simulation.baseline.avgProcessingTime = XInt(8)
  /\ simulation.baseline.averageLOS = XInt(0)
  /\ simulation.projected.averageLOS = XNum(<<1, 10>>)
  /\ XLt(simulation.improvements.losReduction, XInt(0))

====
